---- MODULE Spec2Model ----
(***************************************************************************)
(* Model of the Capacities MCP server: configuration, date normalisation,  *)
(* error classification, the remote client and the seven tool handlers.    *)
(*                                                                         *)
(* JavaScript strings are sequences of one-character strings, so that      *)
(* trim(), toLowerCase() and the regular expressions are computed and not  *)
(* assumed.  `undefined` and `null` are the one-element sequences          *)
(* Undefined and Null, whose element is no character of any string.        *)
(***************************************************************************)
EXTENDS Integers, Sequences, FiniteSets, TLC

\* ------------------------------------------------------------------------
\* Strings
\* ------------------------------------------------------------------------

Undefined == <<"<undefined>">>

Null == <<"<null>">>

Whitespace == {" ", "\t"}

Digits == {"0", "1", "2", "3", "4", "5", "6", "7", "8", "9"}

HexLower == Digits \cup {"a", "b", "c", "d", "e", "f"}

UpperToLower ==
    [c \in {"A", "B", "C", "D", "E", "F", "G", "H", "I", "J", "K", "L", "M",
             "N", "O", "P", "Q", "R", "S", "T", "U", "V", "W", "X", "Y", "Z"} |->
        CASE c = "A" -> "a" [] c = "B" -> "b" [] c = "C" -> "c" [] c = "D" -> "d"
          [] c = "E" -> "e" [] c = "F" -> "f" [] c = "G" -> "g" [] c = "H" -> "h"
          [] c = "I" -> "i" [] c = "J" -> "j" [] c = "K" -> "k" [] c = "L" -> "l"
          [] c = "M" -> "m" [] c = "N" -> "n" [] c = "O" -> "o" [] c = "P" -> "p"
          [] c = "Q" -> "q" [] c = "R" -> "r" [] c = "S" -> "s" [] c = "T" -> "t"
          [] c = "U" -> "u" [] c = "V" -> "v" [] c = "W" -> "w" [] c = "X" -> "x"
          [] c = "Y" -> "y" [] c = "Z" -> "z"]

\* String.prototype.toLowerCase, on the characters the model uses
toLowerCase(s) ==
    [i \in 1..Len(s) |-> IF s[i] \in DOMAIN UpperToLower THEN UpperToLower[s[i]] ELSE s[i]]

RECURSIVE Rep(_, _)
Rep(c, n) == IF n = 0 THEN <<>> ELSE <<c>> \o Rep(c, n - 1)

RECURSIVE trimStart(_)
trimStart(s) ==
    IF s # <<>> /\ Head(s) \in Whitespace THEN trimStart(Tail(s)) ELSE s

RECURSIVE trimEnd(_)
trimEnd(s) ==
    IF s # <<>> /\ s[Len(s)] \in Whitespace THEN trimEnd(SubSeq(s, 1, Len(s) - 1)) ELSE s

\* String.prototype.trim
trim(s) == trimEnd(trimStart(s))

\* JavaScript truthiness of a value of type string | null | undefined
Truthy(v) == v # Undefined /\ v # Null /\ v # <<>>

\* lexicographic string comparison a > b on digit-and-hyphen strings
CharRank(c) ==
    CASE c = "-" -> 0
      [] c = "0" -> 1 [] c = "1" -> 2 [] c = "2" -> 3 [] c = "3" -> 4 [] c = "4" -> 5
      [] c = "5" -> 6 [] c = "6" -> 7 [] c = "7" -> 8 [] c = "8" -> 9 [] c = "9" -> 10
      [] OTHER -> 11

RECURSIVE StrGreater(_, _)
StrGreater(a, b) ==
    IF a = <<>> THEN FALSE
    ELSE IF b = <<>> THEN TRUE
    ELSE IF Head(a) = Head(b) THEN StrGreater(Tail(a), Tail(b))
    ELSE CharRank(Head(a)) > CharRank(Head(b))

\* trimToUndefined returning the string as received instead of its trimmed form
trimToUndefined_Untrimmed(value) ==
    IF ~Truthy(value) THEN Undefined
    ELSE IF Len(trim(value)) > 0 THEN value ELSE Undefined

\* trimToUndefined: undefined for a missing, empty or blank string
trimToUndefined(value) ==
    IF ~Truthy(value) THEN Undefined
    ELSE IF Len(trim(value)) > 0 THEN trim(value) ELSE Undefined

\* ------------------------------------------------------------------------
\* Outcomes of a function call: a returned value or a thrown value
\* ------------------------------------------------------------------------

NoStatus == -1

NullStatus == -2

NoError ==
    [kind |-> "none", code |-> "", message |-> <<>>, status |-> NoStatus,
     actionableMessage |-> <<>>]

Return(v) == [ok |-> TRUE, value |-> v, error |-> NoError]

Throw(e) == [ok |-> FALSE, value |-> Undefined, error |-> e]

\* ------------------------------------------------------------------------
\* errors.ts
\* ------------------------------------------------------------------------

CapacitiesErrorCode ==
    {"config_error", "validation_error", "network_error", "api_error", "rate_limit",
     "unsupported"}

CapacitiesError(message, code, status, actionableMessage) ==
    [kind |-> "CapacitiesError", code |-> code, message |-> message, status |-> status,
     actionableMessage |-> actionableMessage]

\* a thrown Error that is no CapacitiesError (a TypeError, a fetch failure)
PlainError(message) ==
    [kind |-> "Error", code |-> "", message |-> message, status |-> NoStatus,
     actionableMessage |-> <<>>]

\* a thrown value that is no Error at all
ThrownValue ==
    [kind |-> "value", code |-> "", message |-> <<>>, status |-> NoStatus,
     actionableMessage |-> <<>>]

createConfigError(message) ==
    CapacitiesError(message, "config_error", NoStatus,
        <<"Set required environment variables and restart the server.">>)

createValidationError(message) ==
    CapacitiesError(message, "validation_error", NoStatus,
        <<"Fix input values and retry.">>)

createUnsupportedError(message) ==
    CapacitiesError(message, "unsupported", NoStatus,
        <<"Use a supported Capacities API endpoint documented in https://api.capacities.io/docs.">>)

createNetworkError(message) ==
    CapacitiesError(message, "network_error", NoStatus,
        <<"Check network connectivity and retry. If this persists, verify api.capacities.io reachability.">>)

createApiError(message, status, actionableMessage) ==
    CapacitiesError(message, "api_error", status,
        IF actionableMessage = Undefined
        THEN <<"Retry the request. If it persists, verify the upstream API response.">>
        ELSE actionableMessage)

normalizeCapacitiesError_Reclassify(error) ==
    IF error.kind = "Error"
    THEN createNetworkError(<<"Network request to Capacities API failed: ">> \o error.message)
    ELSE createNetworkError(<<"Network request to Capacities API failed with an unknown error.">>)

normalizeCapacitiesError(error) ==
    IF error.kind = "CapacitiesError" THEN error
    ELSE IF error.kind = "Error"
    THEN createNetworkError(<<"Network request to Capacities API failed: ">> \o error.message)
    ELSE createNetworkError(<<"Network request to Capacities API failed with an unknown error.">>)

\* ------------------------------------------------------------------------
\* config.ts
\* ------------------------------------------------------------------------

IsHex(c) == c \in HexLower \/ (c \in DOMAIN UpperToLower /\ UpperToLower[c] \in HexLower)

\* UUID_PATTERN.test(value)
isUuid(value) ==
    /\ Len(value) = 36
    /\ \A i \in 1..36 :
        IF i \in {9, 14, 19, 24} THEN value[i] = "-"
        ELSE IF i = 15 THEN value[i] \in {"1", "2", "3", "4", "5"}
        ELSE IF i = 20 THEN value[i] \in {"8", "9", "a", "b", "A", "B"}
        ELSE IsHex(value[i])

\* resolveSpaceId falling back to the default when the explicit value is no UUID
resolveSpaceId_FallsBack(explicitSpaceId, cfg) ==
    LET trimmed == IF explicitSpaceId = Undefined THEN Undefined ELSE trim(explicitSpaceId)
        candidate == IF Truthy(trimmed) /\ isUuid(trimmed) THEN trimmed
                     ELSE cfg.defaultSpaceId
    IN  IF ~Truthy(candidate)
        THEN Throw(createConfigError(
                <<"Missing space ID. Provide a space ID in the request or set CAPACITIES_SPACE_ID.">>))
        ELSE IF ~isUuid(candidate)
        THEN Throw(createValidationError(<<"Space ID must be a UUID. Received: ">> \o candidate))
        ELSE Return(candidate)

resolveSpaceId(explicitSpaceId, cfg) ==
    LET trimmed == IF explicitSpaceId = Undefined THEN Undefined ELSE trim(explicitSpaceId)
        candidate == IF Truthy(trimmed) THEN trimmed ELSE cfg.defaultSpaceId
    IN  IF ~Truthy(candidate)
        THEN Throw(createConfigError(
                <<"Missing space ID. Provide a space ID in the request or set CAPACITIES_SPACE_ID.">>))
        ELSE IF ~isUuid(candidate)
        THEN Throw(createValidationError(<<"Space ID must be a UUID. Received: ">> \o candidate))
        ELSE Return(candidate)

getOptionalTrimmedEnv(raw) ==
    IF raw = Undefined THEN Undefined
    ELSE IF Len(trim(raw)) > 0 THEN trim(raw) ELSE Undefined

getRequiredTrimmedEnv(raw) ==
    IF ~Truthy(getOptionalTrimmedEnv(raw))
    THEN Throw(createConfigError(
            <<"CAPACITIES_API_TOKEN is required and must be a non-empty string.">>))
    ELSE Return(getOptionalTrimmedEnv(raw))

CAPACITIES_API_BASE_URL == "https://api.capacities.io"

\* loadCapacitiesConfig leaving the UUID check to resolveSpaceId
loadCapacitiesConfig_Deferred(env) ==
    LET apiToken == getRequiredTrimmedEnv(env.CAPACITIES_API_TOKEN)
        defaultSpaceIdRaw == getOptionalTrimmedEnv(env.CAPACITIES_SPACE_ID)
    IN  IF ~apiToken.ok THEN apiToken
        ELSE Return([baseUrl |-> CAPACITIES_API_BASE_URL, apiToken |-> apiToken.value,
                     defaultSpaceId |-> defaultSpaceIdRaw])

loadCapacitiesConfig(env) ==
    LET apiToken == getRequiredTrimmedEnv(env.CAPACITIES_API_TOKEN)
        defaultSpaceIdRaw == getOptionalTrimmedEnv(env.CAPACITIES_SPACE_ID)
    IN  IF ~apiToken.ok THEN apiToken
        ELSE IF defaultSpaceIdRaw # Undefined /\ ~isUuid(defaultSpaceIdRaw)
        THEN Throw(createValidationError(
                <<"CAPACITIES_SPACE_ID must be a UUID when provided. Received: ">>
                    \o defaultSpaceIdRaw))
        ELSE Return([baseUrl |-> CAPACITIES_API_BASE_URL, apiToken |-> apiToken.value,
                     defaultSpaceId |-> defaultSpaceIdRaw])

\* ------------------------------------------------------------------------
\* date.ts
\* ------------------------------------------------------------------------

DigitValue(c) ==
    CASE c = "0" -> 0 [] c = "1" -> 1 [] c = "2" -> 2 [] c = "3" -> 3 [] c = "4" -> 4
      [] c = "5" -> 5 [] c = "6" -> 6 [] c = "7" -> 7 [] c = "8" -> 8 [] c = "9" -> 9

DigitChar(n) ==
    CASE n = 0 -> "0" [] n = 1 -> "1" [] n = 2 -> "2" [] n = 3 -> "3" [] n = 4 -> "4"
      [] n = 5 -> "5" [] n = 6 -> "6" [] n = 7 -> "7" [] n = 8 -> "8" [] n = 9 -> "9"

\* Number(s) for a string of decimal digits
RECURSIVE ToNumber(_)
ToNumber(s) ==
    IF s = <<>> THEN 0 ELSE 10 * ToNumber(SubSeq(s, 1, Len(s) - 1)) + DigitValue(s[Len(s)])

\* String(n) for an integer n >= 0
RECURSIVE NumberToString(_)
NumberToString(n) == IF n < 10 THEN <<DigitChar(n)>> ELSE NumberToString(n \div 10) \o <<DigitChar(n % 10)>>

padStart2(s) == IF Len(s) < 2 THEN Rep("0", 2 - Len(s)) \o s ELSE s

\* day number (days since 1970-01-01) of a proleptic Gregorian date, month in 1..12
DaysFromCivil(year, month, day) ==
    LET y == IF month <= 2 THEN year - 1 ELSE year
        era == y \div 400
        yoe == y - era * 400
        mp == IF month > 2 THEN month - 3 ELSE month + 9
        doy == (153 * mp + 2) \div 5 + day - 1
        doe == yoe * 365 + yoe \div 4 - yoe \div 100 + doy
    IN  era * 146097 + doe - 719468

\* the Gregorian date of a day number: what getFullYear / getMonth()+1 / getDate read
CivilFromDays(z) ==
    LET zz == z + 719468
        era == zz \div 146097
        doe == zz - era * 146097
        yoe == (doe - doe \div 1460 + doe \div 36524 - doe \div 146096) \div 365
        doy == doe - (365 * yoe + yoe \div 4 - yoe \div 100)
        mp == (5 * doy + 2) \div 153
        d == doy - (153 * mp + 2) \div 5 + 1
        m == IF mp < 10 THEN mp + 3 ELSE mp - 9
    IN  [year |-> IF m <= 2 THEN yoe + era * 400 + 1 ELSE yoe + era * 400,
         month |-> m, day |-> d]

\* ECMAScript MakeDay(year, month, date): month is a 0-based index of any size
MakeDay(year, monthIndex, date) ==
    DaysFromCivil(year + monthIndex \div 12, (monthIndex % 12) + 1, 1) + date - 1

\* Date.UTC(year, monthIndex, day): a year in 0..99 means 1900 + year
DateUTC(year, monthIndex, day) ==
    MakeDay(IF 0 <= year /\ year <= 99 THEN 1900 + year ELSE year, monthIndex, day)

\* date.setDate(n) on a local date
setDate(date, n) == CivilFromDays(MakeDay(date.year, date.month - 1, n))

\* toIsoLocalDate without padStart
toIsoLocalDate_Unpadded(date) ==
    NumberToString(date.year) \o <<"-">> \o NumberToString(date.month) \o <<"-">>
        \o NumberToString(date.day)

toIsoLocalDate(date) ==
    NumberToString(date.year) \o <<"-">> \o padStart2(NumberToString(date.month)) \o <<"-">>
        \o padStart2(NumberToString(date.day))

\* ABSOLUTE_DATE_PATTERN.exec(s) # null
MatchesAbsoluteDatePattern(s) ==
    /\ Len(s) = 10
    /\ \A i \in 1..10 : IF i \in {5, 8} THEN s[i] = "-" ELSE s[i] \in Digits

Yesterday == <<"y", "e", "s", "t", "e", "r", "d", "a", "y">>

\* parsed = new Date(Date.UTC(year, month - 1, day)) reads back as year, month, day
ReadsBackAs(parsed, year, month, day) ==
    parsed.year = year /\ parsed.month = month /\ parsed.day = day

\* the absolute-date branch of normalizeDateInput, on the matched components
normalizeAbsoluteDate(input, normalizedInput, year, month, day) ==
    IF ~ReadsBackAs(CivilFromDays(DateUTC(year, month - 1, day)), year, month, day)
    THEN Throw(createValidationError(
            <<"Invalid date. Use a real calendar date in YYYY-MM-DD format: ">> \o input))
    ELSE Return(normalizedInput)

\* normalizeDateInput on the trimmed input
normalizeTrimmedDate(input, normalizedInput, now) ==
    IF toLowerCase(normalizedInput) = Yesterday
    THEN Return(toIsoLocalDate(setDate(now, now.day - 1)))
    ELSE IF ~MatchesAbsoluteDatePattern(normalizedInput)
    THEN Throw(createValidationError(
            <<"Invalid date. Expected YYYY-MM-DD or relative value yesterday: ">> \o input))
    ELSE normalizeAbsoluteDate(input, normalizedInput,
            ToNumber(SubSeq(normalizedInput, 1, 4)),
            ToNumber(SubSeq(normalizedInput, 6, 7)),
            ToNumber(SubSeq(normalizedInput, 9, 10)))

\* normalizeDateInput(input, now); now is the local calendar date of the clock
normalizeDateInput(input, now) == normalizeTrimmedDate(input, trim(input), now)

\* ------------------------------------------------------------------------
\* Tool results (read-query-tools.ts and mutation-tools.ts)
\* ------------------------------------------------------------------------

\* A tool result: `keys` are the keys of structuredContent, `top` the keys of the
\* result object itself; a field outside `keys` / `errorKeys` is not in the payload.
NoDetails == [none |-> TRUE]

NoResult ==
    [tool |-> "", top |-> {}, keys |-> {}, supported |-> Undefined, ok |-> Undefined,
     isError |-> Undefined, error |-> NoError, errorKeys |-> {}, details |-> NoDetails,
     data |-> NoDetails]

JsTrue == <<"true">>

JsFalse == <<"false">>

AVAILABLE_ENDPOINTS ==
    <<"/spaces", "/space-info", "/lookup", "/save-weblink", "/save-to-daily-note">>

successResult(toolName, data) ==
    [tool |-> toolName, top |-> {"content", "structuredContent"},
     keys |-> {"tool"} \cup DOMAIN data,
     supported |-> Undefined, ok |-> Undefined, isError |-> Undefined,
     error |-> NoError, errorKeys |-> {}, details |-> NoDetails, data |-> data]

unsupportedResult_WithErrorFlag(toolName, message, details) ==
    [tool |-> toolName, top |-> {"content", "structuredContent", "isError"},
     keys |-> {"tool", "supported", "error", "details"},
     supported |-> JsFalse, ok |-> Undefined, isError |-> JsTrue,
     error |-> createUnsupportedError(message),
     errorKeys |-> {"code", "message", "actionableMessage"},
     details |-> details, data |-> NoDetails]

unsupportedResult(toolName, message, details) ==
    [tool |-> toolName, top |-> {"content", "structuredContent"},
     keys |-> {"tool", "supported", "error", "details"},
     supported |-> JsFalse, ok |-> Undefined, isError |-> Undefined,
     error |-> createUnsupportedError(message),
     errorKeys |-> {"code", "message", "actionableMessage"},
     details |-> details, data |-> NoDetails]

\* status: normalizedError.status ?? null
StatusOrNull(status) == IF status = NoStatus THEN NullStatus ELSE status

errorResult(toolName, error) ==
    LET normalizedError == normalizeCapacitiesError(error)
    IN  [tool |-> toolName, top |-> {"content", "structuredContent", "isError"},
         keys |-> {"tool", "ok", "error"},
         supported |-> Undefined, ok |-> JsFalse, isError |-> JsTrue,
         error |-> [normalizedError EXCEPT !.status = StatusOrNull(normalizedError.status)],
         errorKeys |-> {"code", "message", "status", "actionableMessage"},
         details |-> NoDetails, data |-> NoDetails]

mutationUnsupportedResult(toolName, message, details) ==
    [tool |-> toolName, top |-> {"content", "structuredContent"},
     keys |-> {"tool", "supported", "error", "details"},
     supported |-> JsFalse, ok |-> Undefined, isError |-> Undefined,
     error |-> createUnsupportedError(message),
     errorKeys |-> {"code", "message", "actionableMessage"},
     details |-> details, data |-> NoDetails]

mutationErrorResult(toolName, error) ==
    LET normalizedError == normalizeCapacitiesError(error)
    IN  [tool |-> toolName, top |-> {"content", "structuredContent", "isError"},
         keys |-> {"tool", "ok", "error"},
         supported |-> Undefined, ok |-> JsFalse, isError |-> JsTrue,
         error |-> [normalizedError EXCEPT !.status = StatusOrNull(normalizedError.status)],
         errorKeys |-> {"code", "message", "status", "actionableMessage"},
         details |-> NoDetails, data |-> NoDetails]

\* ------------------------------------------------------------------------
\* Input normalisation of the read-query tools
\* ------------------------------------------------------------------------

\* validateDateInputs without the "provided together" rule
validateDateInputs_AllowsHalfRange(date, dateFrom, dateTo) ==
    IF Truthy(date) /\ (Truthy(dateFrom) \/ Truthy(dateTo))
    THEN Throw(createValidationError(<<"Use either date or dateFrom/dateTo, not both.">>))
    ELSE IF Truthy(dateFrom) /\ Truthy(dateTo) /\ StrGreater(dateFrom, dateTo)
    THEN Throw(createValidationError(<<"dateFrom must be earlier than or equal to dateTo.">>))
    ELSE Return(Undefined)

\* validateDateInputs without the order rule
validateDateInputs_AllowsInverted(date, dateFrom, dateTo) ==
    IF Truthy(date) /\ (Truthy(dateFrom) \/ Truthy(dateTo))
    THEN Throw(createValidationError(<<"Use either date or dateFrom/dateTo, not both.">>))
    ELSE IF (Truthy(dateFrom) /\ ~Truthy(dateTo)) \/ (~Truthy(dateFrom) /\ Truthy(dateTo))
    THEN Throw(createValidationError(<<"dateFrom and dateTo must be provided together.">>))
    ELSE Return(Undefined)

validateDateInputs(date, dateFrom, dateTo) ==
    IF Truthy(date) /\ (Truthy(dateFrom) \/ Truthy(dateTo))
    THEN Throw(createValidationError(<<"Use either date or dateFrom/dateTo, not both.">>))
    ELSE IF (Truthy(dateFrom) /\ ~Truthy(dateTo)) \/ (~Truthy(dateFrom) /\ Truthy(dateTo))
    THEN Throw(createValidationError(<<"dateFrom and dateTo must be provided together.">>))
    ELSE IF Truthy(dateFrom) /\ Truthy(dateTo) /\ StrGreater(dateFrom, dateTo)
    THEN Throw(createValidationError(<<"dateFrom must be earlier than or equal to dateTo.">>))
    ELSE Return(Undefined)

\* input.X ? normalizeDateInput(input.X) : undefined
DateOrUndefined(value, now) ==
    IF Truthy(value) THEN normalizeDateInput(value, now) ELSE Return(Undefined)

DEFAULT_LIMIT == 20

UndefinedLimit == -1

\* normalizeSearchEntitiesFilters once the three dates are normalised
searchEntitiesFiltersOf(input, date, dateFrom, dateTo) ==
    IF ~date.ok THEN date
    ELSE IF ~dateFrom.ok THEN dateFrom
    ELSE IF ~dateTo.ok THEN dateTo
    ELSE IF ~validateDateInputs(date.value, dateFrom.value, dateTo.value).ok
    THEN validateDateInputs(date.value, dateFrom.value, dateTo.value)
    ELSE Return([spaceId |-> trimToUndefined(input.spaceId),
                 text |-> trimToUndefined(input.text),
                 type |-> trimToUndefined(input.type),
                 date |-> date.value, dateFrom |-> dateFrom.value,
                 dateTo |-> dateTo.value,
                 limit |-> IF input.limit = UndefinedLimit THEN DEFAULT_LIMIT
                           ELSE input.limit])

normalizeSearchEntitiesFilters(input, now) ==
    searchEntitiesFiltersOf(input, DateOrUndefined(input.date, now),
        DateOrUndefined(input.dateFrom, now), DateOrUndefined(input.dateTo, now))

\* normalizeListTasksFilters once the three dates are normalised
listTasksFiltersOf(input, date, dateFrom, dateTo) ==
    IF ~date.ok THEN date
    ELSE IF ~dateFrom.ok THEN dateFrom
    ELSE IF ~dateTo.ok THEN dateTo
    ELSE IF ~validateDateInputs(date.value, dateFrom.value, dateTo.value).ok
    THEN validateDateInputs(date.value, dateFrom.value, dateTo.value)
    ELSE Return([spaceId |-> trimToUndefined(input.spaceId),
                 status |-> IF input.status = Undefined THEN <<"all">> ELSE input.status,
                 date |-> date.value, dateFrom |-> dateFrom.value,
                 dateTo |-> dateTo.value])

normalizeListTasksFilters(input, now) ==
    listTasksFiltersOf(input, DateOrUndefined(input.date, now),
        DateOrUndefined(input.dateFrom, now), DateOrUndefined(input.dateTo, now))

\* ------------------------------------------------------------------------
\* Input normalisation of the mutation tools
\* ------------------------------------------------------------------------

normalizeNullableText(value, fieldName) ==
    IF value = Undefined \/ value = Null THEN Return(value)
    ELSE IF ~Truthy(trimToUndefined(value))
    THEN Throw(createValidationError(<<fieldName, " must be a non-empty string when provided.">>))
    ELSE Return(trimToUndefined(value))

normalizeOptionalDate(value, now) ==
    IF value = Undefined THEN Return(Undefined)
    ELSE IF ~Truthy(trimToUndefined(value))
    THEN Throw(createValidationError(
            <<"dueDate must be a non-empty date string when provided.">>))
    ELSE normalizeDateInput(trimToUndefined(value), now)

normalizeNullableDate(value, now) ==
    IF value = Undefined \/ value = Null THEN Return(value)
    ELSE IF ~Truthy(trimToUndefined(value))
    THEN Throw(createValidationError(
            <<"dueDate must be a non-empty date string when provided.">>))
    ELSE normalizeDateInput(trimToUndefined(value), now)

normalizeCreateTaskInput(input, cfg, now) ==
    LET title == trimToUndefined(input.title)
        spaceId == resolveSpaceId(input.spaceId, cfg)
        dueDate == normalizeOptionalDate(input.dueDate, now)
    IN  IF ~Truthy(title)
        THEN Throw(createValidationError(<<"title must be a non-empty string.">>))
        ELSE IF ~spaceId.ok THEN spaceId
        ELSE IF ~dueDate.ok THEN dueDate
        ELSE Return([spaceId |-> spaceId.value, title |-> title,
                     description |-> trimToUndefined(input.description),
                     dueDate |-> dueDate.value])

normalizeUpdateTaskInput_NoFieldCheck(input, cfg, now) ==
    LET taskId == trimToUndefined(input.taskId)
        title == IF input.title = Undefined THEN Undefined ELSE trimToUndefined(input.title)
        description == normalizeNullableText(input.description, "description")
        dueDate == normalizeNullableDate(input.dueDate, now)
        spaceId == resolveSpaceId(input.spaceId, cfg)
    IN  IF ~Truthy(taskId)
        THEN Throw(createValidationError(<<"taskId must be a non-empty string.">>))
        ELSE IF input.title # Undefined /\ ~Truthy(title)
        THEN Throw(createValidationError(<<"title must be a non-empty string when provided.">>))
        ELSE IF ~description.ok THEN description
        ELSE IF ~dueDate.ok THEN dueDate
        ELSE IF ~spaceId.ok THEN spaceId
        ELSE Return([taskId |-> taskId, spaceId |-> spaceId.value, title |-> title,
                     description |-> description.value, dueDate |-> dueDate.value,
                     status |-> input.status])

normalizeUpdateTaskInput(input, cfg, now) ==
    LET taskId == trimToUndefined(input.taskId)
        title == IF input.title = Undefined THEN Undefined ELSE trimToUndefined(input.title)
        description == normalizeNullableText(input.description, "description")
        dueDate == normalizeNullableDate(input.dueDate, now)
        spaceId == resolveSpaceId(input.spaceId, cfg)
    IN  IF ~Truthy(taskId)
        THEN Throw(createValidationError(<<"taskId must be a non-empty string.">>))
        ELSE IF input.title # Undefined /\ ~Truthy(title)
        THEN Throw(createValidationError(<<"title must be a non-empty string when provided.">>))
        ELSE IF ~description.ok THEN description
        ELSE IF ~dueDate.ok THEN dueDate
        ELSE IF /\ title = Undefined
                /\ description.value = Undefined
                /\ dueDate.value = Undefined
                /\ input.status = Undefined
        THEN Throw(createValidationError(
                <<"Provide at least one update field: title, description, dueDate, or status.">>))
        ELSE IF ~spaceId.ok THEN spaceId
        ELSE Return([taskId |-> taskId, spaceId |-> spaceId.value, title |-> title,
                     description |-> description.value, dueDate |-> dueDate.value,
                     status |-> input.status])

\* normalizeCompleteTaskInput without the `?? true` default
normalizeCompleteTaskInput_NoDefault(input, cfg) ==
    LET taskId == trimToUndefined(input.taskId)
        spaceId == resolveSpaceId(input.spaceId, cfg)
    IN  IF ~Truthy(taskId)
        THEN Throw(createValidationError(<<"taskId must be a non-empty string.">>))
        ELSE IF ~spaceId.ok THEN spaceId
        ELSE Return([taskId |-> taskId, spaceId |-> spaceId.value,
                     completed |-> input.completed])

normalizeCompleteTaskInput(input, cfg) ==
    LET taskId == trimToUndefined(input.taskId)
        spaceId == resolveSpaceId(input.spaceId, cfg)
    IN  IF ~Truthy(taskId)
        THEN Throw(createValidationError(<<"taskId must be a non-empty string.">>))
        ELSE IF ~spaceId.ok THEN spaceId
        ELSE Return([taskId |-> taskId, spaceId |-> spaceId.value,
                     completed |-> IF input.completed = Undefined THEN JsTrue
                                   ELSE input.completed])

\* ------------------------------------------------------------------------
\* capacities-client.ts and createHttpError
\* ------------------------------------------------------------------------

\* A transport outcome is a thrown Error, a thrown non-Error value, or a response
\* [status, headers, body]; a body is its raw text and, when the text is JSON,
\* the value JSON.parse gives for it.
\* createHttpError taking only 503 and 555 for server errors
createHttpError_NamedServerErrors(response) ==
    LET responseBody == trim(response.body.raw)
        status == response.status
        statusPrefix ==
            <<"Capacities API request failed with status ">> \o NumberToString(status)
                \o <<".">>
        responseHint ==
            IF Truthy(responseBody) THEN <<" Response: ">> \o responseBody ELSE <<>>
        retryAfter == response.headers.retryAfter
        reset == response.headers.ratelimitReset
        retryHint ==
            IF Truthy(retryAfter) THEN <<" Retry after ">> \o retryAfter \o <<" seconds.">>
            ELSE IF Truthy(reset)
            THEN <<" Retry when rate limit resets (">> \o reset \o <<").">>
            ELSE <<" Retry after a short delay.">>
    IN  IF status = 401
        THEN CapacitiesError(statusPrefix \o <<" Unauthorized.">> \o responseHint,
                "api_error", status,
                <<"Verify CAPACITIES_API_TOKEN is valid for your Capacities account.">>)
        ELSE IF status = 404
        THEN CapacitiesError(statusPrefix \o <<" Not found.">> \o responseHint,
                "api_error", status,
                <<"Verify endpoint and identifiers (for example space ID) and retry.">>)
        ELSE IF status = 429
        THEN CapacitiesError(
                statusPrefix \o <<" Rate limit exceeded.">> \o retryHint \o responseHint,
                "rate_limit", status,
                <<"Back off and retry with lower request frequency. Respect RateLimit headers when present.">>)
        ELSE IF status = 503 \/ status = 555
        THEN CapacitiesError(statusPrefix \o <<" Server error.">> \o responseHint,
                "api_error", status,
                <<"Retry with exponential backoff. If repeated, treat as temporary upstream outage.">>)
        ELSE IF status >= 400
        THEN CapacitiesError(statusPrefix \o responseHint, "api_error", status,
                <<"Check request parameters and payload shape against Capacities API docs, then retry.">>)
        ELSE CapacitiesError(statusPrefix \o responseHint, "api_error", status,
                <<"Retry the request.">>)

\* createHttpError that does not read the rate-limit headers
createHttpError_NoRetryHint(response) ==
    LET responseBody == trim(response.body.raw)
        status == response.status
        statusPrefix ==
            <<"Capacities API request failed with status ">> \o NumberToString(status)
                \o <<".">>
        responseHint ==
            IF Truthy(responseBody) THEN <<" Response: ">> \o responseBody ELSE <<>>
        retryAfter == response.headers.retryAfter
        reset == response.headers.ratelimitReset
        retryHint ==
            <<" Retry after a short delay.">>
    IN  IF status = 401
        THEN CapacitiesError(statusPrefix \o <<" Unauthorized.">> \o responseHint,
                "api_error", status,
                <<"Verify CAPACITIES_API_TOKEN is valid for your Capacities account.">>)
        ELSE IF status = 404
        THEN CapacitiesError(statusPrefix \o <<" Not found.">> \o responseHint,
                "api_error", status,
                <<"Verify endpoint and identifiers (for example space ID) and retry.">>)
        ELSE IF status = 429
        THEN CapacitiesError(
                statusPrefix \o <<" Rate limit exceeded.">> \o retryHint \o responseHint,
                "rate_limit", status,
                <<"Back off and retry with lower request frequency. Respect RateLimit headers when present.">>)
        ELSE IF status = 503 \/ status = 555 \/ status >= 500
        THEN CapacitiesError(statusPrefix \o <<" Server error.">> \o responseHint,
                "api_error", status,
                <<"Retry with exponential backoff. If repeated, treat as temporary upstream outage.">>)
        ELSE IF status >= 400
        THEN CapacitiesError(statusPrefix \o responseHint, "api_error", status,
                <<"Check request parameters and payload shape against Capacities API docs, then retry.">>)
        ELSE CapacitiesError(statusPrefix \o responseHint, "api_error", status,
                <<"Retry the request.">>)

createHttpError(response) ==
    LET responseBody == trim(response.body.raw)
        status == response.status
        statusPrefix ==
            <<"Capacities API request failed with status ">> \o NumberToString(status)
                \o <<".">>
        responseHint ==
            IF Truthy(responseBody) THEN <<" Response: ">> \o responseBody ELSE <<>>
        retryAfter == response.headers.retryAfter
        reset == response.headers.ratelimitReset
        retryHint ==
            IF Truthy(retryAfter) THEN <<" Retry after ">> \o retryAfter \o <<" seconds.">>
            ELSE IF Truthy(reset)
            THEN <<" Retry when rate limit resets (">> \o reset \o <<").">>
            ELSE <<" Retry after a short delay.">>
    IN  IF status = 401
        THEN CapacitiesError(statusPrefix \o <<" Unauthorized.">> \o responseHint,
                "api_error", status,
                <<"Verify CAPACITIES_API_TOKEN is valid for your Capacities account.">>)
        ELSE IF status = 404
        THEN CapacitiesError(statusPrefix \o <<" Not found.">> \o responseHint,
                "api_error", status,
                <<"Verify endpoint and identifiers (for example space ID) and retry.">>)
        ELSE IF status = 429
        THEN CapacitiesError(
                statusPrefix \o <<" Rate limit exceeded.">> \o retryHint \o responseHint,
                "rate_limit", status,
                <<"Back off and retry with lower request frequency. Respect RateLimit headers when present.">>)
        ELSE IF status = 503 \/ status = 555 \/ status >= 500
        THEN CapacitiesError(statusPrefix \o <<" Server error.">> \o responseHint,
                "api_error", status,
                <<"Retry with exponential backoff. If repeated, treat as temporary upstream outage.">>)
        ELSE IF status >= 400
        THEN CapacitiesError(statusPrefix \o responseHint, "api_error", status,
                <<"Check request parameters and payload shape against Capacities API docs, then retry.">>)
        ELSE CapacitiesError(statusPrefix \o responseHint, "api_error", status,
                <<"Retry the request.">>)

\* response.ok
ResponseOk(response) == response.status >= 200 /\ response.status <= 299

\* JSON.parse(rawBody)
JSONParse(body) ==
    IF body.isJson THEN Return(body.json) ELSE Throw(PlainError(<<"SyntaxError">>))

\* requestJson taking an empty body for an empty object
requestJsonTry_EmptyAsObject(outcome, method, path) ==
    IF outcome.kind = "throw_error" THEN Throw(PlainError(<<"fetch failed">>))
    ELSE IF outcome.kind = "throw_value" THEN Throw(ThrownValue)
    ELSE IF ~ResponseOk(outcome) THEN Throw(createHttpError(outcome))
    ELSE IF ~Truthy(trim(outcome.body.raw))
    THEN Return([kind |-> "object", has |-> FALSE, list |-> <<>>])
    ELSE IF ~JSONParse(outcome.body).ok
    THEN Throw(createApiError(
            <<"Capacities API returned invalid JSON for ", method, " ", path, ".">>,
            outcome.status, Undefined))
    ELSE Return(JSONParse(outcome.body).value)

\* the try block of requestJson, from the settled fetch on
requestJsonTry(outcome, method, path) ==
    IF outcome.kind = "throw_error" THEN Throw(PlainError(<<"fetch failed">>))
    ELSE IF outcome.kind = "throw_value" THEN Throw(ThrownValue)
    ELSE IF ~ResponseOk(outcome) THEN Throw(createHttpError(outcome))
    ELSE IF ~Truthy(trim(outcome.body.raw))
    THEN Throw(createApiError(
            <<"Capacities API returned an empty response body for ", method, " ", path, ".">>,
            outcome.status,
            <<"Check endpoint behavior in Capacities docs. Use only endpoints with documented response bodies.">>))
    ELSE IF ~JSONParse(outcome.body).ok
    THEN Throw(createApiError(
            <<"Capacities API returned invalid JSON for ", method, " ", path, ".">>,
            outcome.status, Undefined))
    ELSE Return(JSONParse(outcome.body).value)

\* requestJson: whatever the try block throws is rethrown normalised
requestJson(outcome, method, path) ==
    LET r == requestJsonTry(outcome, method, path)
    IN  IF r.ok THEN r ELSE Throw(normalizeCapacitiesError(r.error))

Method(path) == IF path \in {"/spaces", "/space-info"} THEN "GET" ELSE "POST"

\* The client-side part of an operation, run before its HTTP call is issued:
\* Return(the request) or the error the operation rejects with.
getSpaces == Return([method |-> "GET", path |-> "/spaces"])

\* getSpaceInfo resolving the default space instead of the one it is given
getSpaceInfo_IgnoresArgument(spaceId, cfg) ==
    LET resolvedSpaceId == resolveSpaceId(Undefined, cfg)
    IN  IF ~resolvedSpaceId.ok THEN resolvedSpaceId
        ELSE Return([method |-> "GET", path |-> "/space-info"])

getSpaceInfo(spaceId, cfg) ==
    LET resolvedSpaceId == resolveSpaceId(spaceId, cfg)
    IN  IF ~resolvedSpaceId.ok THEN resolvedSpaceId
        ELSE Return([method |-> "GET", path |-> "/space-info"])

lookup(searchTerm, spaceId, cfg) ==
    LET trimmedSearchTerm == trim(searchTerm)
        resolvedSpaceId == resolveSpaceId(spaceId, cfg)
    IN  IF ~Truthy(trimmedSearchTerm)
        THEN Throw(createValidationError(<<"lookup searchTerm must be a non-empty string.">>))
        ELSE IF ~resolvedSpaceId.ok THEN resolvedSpaceId
        ELSE Return([method |-> "POST", path |-> "/lookup"])

saveWeblink(payload, cfg) ==
    LET resolvedSpaceId == resolveSpaceId(payload.spaceId, cfg)
    IN  IF ~resolvedSpaceId.ok THEN resolvedSpaceId
        ELSE Return([method |-> "POST", path |-> "/save-weblink"])

saveToDailyNote(payload, cfg) ==
    LET resolvedSpaceId == resolveSpaceId(payload.spaceId, cfg)
    IN  IF ~resolvedSpaceId.ok THEN resolvedSpaceId
        ELSE Return([method |-> "POST", path |-> "/save-to-daily-note"])

\* requestJson calling fetchImpl a second time for the same request
requestJsonFetches_Twice(request) == <<request.path, request.path>>

\* the fetchImpl calls one requestJson makes for its request
requestJsonFetches(request) == <<request.path>>

\* ------------------------------------------------------------------------
\* read-query-tools.ts: the parts of the handlers that follow an await
\* ------------------------------------------------------------------------

TypeError == PlainError(<<"TypeError: cannot read properties of undefined">>)

\* response.field, where response is a parsed JSON value: Throw on null,
\* undefined (HasField false) on an object that lacks the field
HasField(json) == json.kind = "object" /\ json.has

RECURSIVE find(_, _)
find(spaces, id) ==
    IF spaces = <<>> THEN Undefined
    ELSE IF Head(spaces).id = id THEN Head(spaces).title
    ELSE find(Tail(spaces), id)

\* get_space_info after Promise.all has fulfilled
\* get_space_info answering with what it has when the structure metadata is missing
finishGetSpaceInfo_Partial(resolvedSpaceId, spacesResponse, spaceInfoResponse) ==
    IF ~HasField(spacesResponse) THEN Throw(TypeError)
    ELSE Return(successResult("get_space_info",
            [spaceId |-> resolvedSpaceId,
             spaceTitle |-> IF find(spacesResponse.list, resolvedSpaceId) = Undefined
                            THEN Null ELSE find(spacesResponse.list, resolvedSpaceId),
             spacesCount |-> Len(spacesResponse.list),
             structures |-> spaceInfoResponse.list]))

finishGetSpaceInfo(resolvedSpaceId, spacesResponse, spaceInfoResponse) ==
    IF ~HasField(spacesResponse) \/ ~HasField(spaceInfoResponse) THEN Throw(TypeError)
    ELSE Return(successResult("get_space_info",
            [spaceId |-> resolvedSpaceId,
             spaceTitle |-> IF find(spacesResponse.list, resolvedSpaceId) = Undefined
                            THEN Null ELSE find(spacesResponse.list, resolvedSpaceId),
             spacesCount |-> Len(spacesResponse.list),
             structures |-> spaceInfoResponse.list]))

resolveStructureIdsByType(typeFilter, structures) ==
    LET normalizedType == toLowerCase(typeFilter)
    IN  {structures[i].id : i \in
            {j \in 1..Len(structures) :
                \/ toLowerCase(structures[j].title) = normalizedType
                \/ toLowerCase(structures[j].id) = normalizedType
                \/ /\ structures[j].pluralName # Undefined
                   /\ toLowerCase(structures[j].pluralName) = normalizedType}}

\* matchesTypeFilter without the fallback to the raw type string
matchesTypeFilter_NoFallback(result, typeFilter, allowedStructureIds) ==
    result.structureId \in allowedStructureIds

matchesTypeFilter(result, typeFilter, allowedStructureIds) ==
    IF Cardinality(allowedStructureIds) > 0
    THEN result.structureId \in allowedStructureIds
    ELSE toLowerCase(result.structureId) = toLowerCase(typeFilter)

\* the type filter of search_entities: the allowed structure ids and the
\* lookup results that pass
filterByType(results, typeFilter, structures) ==
    [allowedStructureIds |-> resolveStructureIdsByType(typeFilter, structures),
     filteredResults |->
        SelectSeq(results,
            LAMBDA r : matchesTypeFilter(r, typeFilter,
                            resolveStructureIdsByType(typeFilter, structures)))]

\* slice that keeps the whole list
slice_WholeList(list, n) == list

\* Array.prototype.slice(0, n)
slice(list, n) == SubSeq(list, 1, IF n < Len(list) THEN n ELSE Len(list))

\* the note pushed after the type filter, in chunks: text, the type, text
TypeNote(typeFilter) ==
    <<"No results matched type filter '", typeFilter,
      "' using structure metadata from '/space-info'.">>

DateNote ==
    <<"Date filters are accepted for compatibility but not applied because /lookup does not return entity date fields.">>

\* the type note pushed whenever the type resolved to no structure
typeFilterNotes_OnUnresolved(typeFilter, allowedStructureIds, filteredResults) ==
    IF allowedStructureIds = {} THEN <<TypeNote(typeFilter)>> ELSE <<>>

\* if (!filteredResults.length) notes.push(...), inside the type filter
typeFilterNotes(typeFilter, allowedStructureIds, filteredResults) ==
    IF Len(filteredResults) = 0 THEN <<TypeNote(typeFilter)>> ELSE <<>>

\* the date note pushed for a single date only
dateFilterNotes_SingleDateOnly(filters) ==
    IF Truthy(filters.date) THEN <<DateNote>> ELSE <<>>

\* if (filters.date || filters.dateFrom || filters.dateTo) notes.push(...)
dateFilterNotes(filters) ==
    IF Truthy(filters.date) \/ Truthy(filters.dateFrom) \/ Truthy(filters.dateTo)
    THEN <<DateNote>> ELSE <<>>

\* search_entities from the type filter on: filteredResults is the lookup's
\* results, typed is whether the structure metadata was fetched
finishSearchEntities(filters, lookupResponse, typed, spaceInfoResponse) ==
    LET allowedStructureIds == resolveStructureIdsByType(filters.type, spaceInfoResponse.list)
        filteredResults ==
            IF typed
            THEN SelectSeq(lookupResponse.list,
                    LAMBDA r : matchesTypeFilter(r, filters.type, allowedStructureIds))
            ELSE lookupResponse.list
        typeNotes ==
            IF typed THEN typeFilterNotes(filters.type, allowedStructureIds, filteredResults)
            ELSE <<>>
        dateNotes == dateFilterNotes(filters)
        limitedResults == slice(filteredResults, filters.limit)
    IN  IF typed /\ ~HasField(spaceInfoResponse) THEN Throw(TypeError)
        ELSE IF ~HasField(lookupResponse) THEN Throw(TypeError)
        ELSE Return(successResult("search_entities",
                [query |-> filters,
                 totalResultsBeforeLimit |-> Len(filteredResults),
                 returnedResults |-> Len(limitedResults),
                 unsupportedNotes |-> typeNotes \o dateNotes,
                 results |-> limitedResults]))

\* ------------------------------------------------------------------------
\* Handlers: what a handler has done when it returns or first awaits
\* ------------------------------------------------------------------------

\* A settled handler: its result, the value its catch block caught (NoError if
\* none) and whether it rejected to the RPC host instead of returning.
Settled(result, caught) == [result |-> result, caught |-> caught, threw |-> FALSE]

Rejected(error) == [result |-> NoResult, caught |-> error, threw |-> TRUE]

\* try { return body } catch (error) { return errorResult(tool, error) }
tryCatch(toolName, outcome) ==
    IF outcome.ok THEN Settled(outcome.value, NoError)
    ELSE Settled(errorResult(toolName, outcome.error), outcome.error)

mutationTryCatch(toolName, outcome) ==
    IF outcome.ok THEN Settled(outcome.value, NoError)
    ELSE Settled(mutationErrorResult(toolName, outcome.error), outcome.error)

getEntityByIdHandler_EchoReceived(input, cfg) ==
    Settled(unsupportedResult("get_entity_by_id",
        <<"Capacities public API does not provide a documented endpoint to fetch an entity by ID and structure.">>,
        [requestedEntity |->
            [entityId |-> input.entityId, structureId |-> input.structureId,
             spaceId |-> IF input.spaceId # Undefined THEN input.spaceId ELSE Null],
         availableEndpoints |-> AVAILABLE_ENDPOINTS]), NoError)

getEntityByIdHandler(input, cfg) ==
    Settled(unsupportedResult("get_entity_by_id",
        <<"Capacities public API does not provide a documented endpoint to fetch an entity by ID and structure.">>,
        [requestedEntity |->
            [entityId |-> input.entityId, structureId |-> input.structureId,
             spaceId |-> IF input.spaceId # Undefined THEN input.spaceId
                         ELSE IF cfg.defaultSpaceId # Undefined THEN cfg.defaultSpaceId
                         ELSE Null],
         availableEndpoints |-> AVAILABLE_ENDPOINTS]), NoError)

\* the try block of the list_tasks handler, given the normalised filters
listTasksTry(filters) ==
    IF ~filters.ok THEN filters
    ELSE Return(unsupportedResult("list_tasks",
            <<"Capacities public API does not provide a documented endpoint for listing tasks or filtering by task status/date.">>,
            [requestedFilters |-> filters.value,
             availableEndpoints |-> AVAILABLE_ENDPOINTS]))

listTasksHandler(input, now) ==
    tryCatch("list_tasks", listTasksTry(normalizeListTasksFilters(input, now)))

\* the try block of the create_task handler, given the normalised payload
createTaskTry(payload) ==
    IF ~payload.ok THEN payload
    ELSE Return(mutationUnsupportedResult("create_task",
            <<"Capacities public API does not provide a documented endpoint for creating tasks.">>,
            [requestedTask |-> payload.value,
             availableEndpoints |-> AVAILABLE_ENDPOINTS]))

createTaskHandler(input, cfg, now) ==
    mutationTryCatch("create_task", createTaskTry(normalizeCreateTaskInput(input, cfg, now)))

\* the try block of the update_task handler, given the normalised payload
updateTaskTry(payload) ==
    IF ~payload.ok THEN payload
    ELSE Return(mutationUnsupportedResult("update_task",
            <<"Capacities public API does not provide a documented endpoint for updating task fields or status.">>,
            [requestedUpdate |-> payload.value,
             availableEndpoints |-> AVAILABLE_ENDPOINTS]))

updateTaskHandler(input, cfg, now) ==
    mutationTryCatch("update_task", updateTaskTry(normalizeUpdateTaskInput(input, cfg, now)))

\* the try block of the complete_task handler, given the normalised payload
completeTaskTry(payload) ==
    IF ~payload.ok THEN payload
    ELSE Return(mutationUnsupportedResult("complete_task",
            <<"Capacities public API does not provide a documented endpoint for completing or uncompleting tasks.">>,
            [requestedAction |-> payload.value,
             availableEndpoints |-> AVAILABLE_ENDPOINTS]))

completeTaskHandler(input, cfg) ==
    mutationTryCatch("complete_task", completeTaskTry(normalizeCompleteTaskInput(input, cfg)))

\* search_entities from the text check to its first await, given the filters
\* and the resolved space: Throw, Return of the unsupported result, or Return
\* of [await |-> TRUE, ...] when the lookup is to be issued
searchEntitiesResolved(filters, resolvedSpaceId, cfg) ==
    IF ~resolvedSpaceId.ok THEN resolvedSpaceId
    ELSE IF ~Truthy(filters.text)
    THEN Return([await |-> FALSE,
                 result |-> unsupportedResult("search_entities",
                    <<"Capacities /lookup requires a non-empty text query. Date-only or type-only search is not supported by the public API.">>,
                    [requestedFilters |-> filters,
                     supported |-> [text |-> TRUE,
                                    type |-> "best-effort (via structureId/title mapping)",
                                    date |-> FALSE, dateRange |-> FALSE]])])
    ELSE IF ~lookup(filters.text, resolvedSpaceId.value, cfg).ok
    THEN lookup(filters.text, resolvedSpaceId.value, cfg)
    ELSE Return([await |-> TRUE, filters |-> filters,
                 resolvedSpaceId |-> resolvedSpaceId.value])

\* search_entities from resolveSpaceId on, given the normalised filters
searchEntitiesFiltered(filters, cfg) ==
    IF ~filters.ok THEN filters
    ELSE searchEntitiesResolved(filters.value, resolveSpaceId(filters.value.spaceId, cfg), cfg)

\* search_entities up to its first await
searchEntitiesStart(input, cfg, now) ==
    searchEntitiesFiltered(normalizeSearchEntitiesFilters(input, now), cfg)

\* search_entities from its first await on, when the remote service answers
\* the lookup with lookupResponse and the structure metadata call, if issued,
\* with spaceInfoResponse
searchEntitiesAnsweredFrom(start, lookupResponse, spaceInfoResponse) ==
    IF ~start.ok THEN tryCatch("search_entities", start)
    ELSE IF ~start.value.await THEN Settled(start.value.result, NoError)
    ELSE IF lookupResponse.kind = "null"
    THEN tryCatch("search_entities", Throw(TypeError))
    ELSE tryCatch("search_entities",
            finishSearchEntities(start.value.filters, lookupResponse,
                Truthy(start.value.filters.type), spaceInfoResponse))

\* the whole search_entities handler, given what the remote service answers
searchEntitiesAnswered(input, cfg, now, lookupResponse, spaceInfoResponse) ==
    searchEntitiesAnsweredFrom(searchEntitiesStart(input, cfg, now), lookupResponse,
        spaceInfoResponse)

\* ------------------------------------------------------------------------
\* Inputs of the model
\* ------------------------------------------------------------------------

Uuid(c, version, variant) ==
    Rep(c, 8) \o <<"-">> \o Rep(c, 4) \o <<"-", version>> \o Rep(c, 3)
        \o <<"-", variant>> \o Rep(c, 3) \o <<"-">> \o Rep(c, 12)

DefaultUuid == Uuid("1", "4", "8")

ExplicitUuid == Uuid("A", "5", "b")

\* UUID-shaped, but with version nibble 0
NonUuid == Uuid("1", "0", "8")

Token == <<"t", "o", "k">>

EnvSources ==
    [CAPACITIES_API_TOKEN : {Undefined, <<" ">>, <<" ">> \o Token},
     CAPACITIES_SPACE_ID : {Undefined, <<" ">>, DefaultUuid \o <<" ">>, NonUuid}]

SpaceIdInputs == {Undefined, <<>>, ExplicitUuid, <<" ">> \o ExplicitUuid, NonUuid}

SearchSpaceIdInputs == {Undefined, <<" ">> \o ExplicitUuid, NonUuid}

YesterdayMixed == <<"Y", "e", "s", "t", "e", "r", "d", "a", "y", " ">>

LeapDay == <<"2", "0", "2", "4", "-", "0", "2", "-", "2", "9">>

NoSuchDay == <<"2", "0", "2", "4", "-", "0", "2", "-", "3", "0">>

EarlyDay == <<"2", "0", "2", "3", "-", "0", "1", "-", "1", "5">>

DateInputs == {Undefined, <<>>, <<" ">>, YesterdayMixed, LeapDay, NoSuchDay, EarlyDay}

RangeInputs == {Undefined, YesterdayMixed, LeapDay, EarlyDay}

SearchDateInputs == {Undefined, YesterdayMixed, NoSuchDay, LeapDay}

SearchRangeInputs == {Undefined, LeapDay, EarlyDay}

\* the local calendar date of the clock when a call is made
Clocks == {[year |-> 2026, month |-> 2, day |-> 19], [year |-> 2024, month |-> 3, day |-> 1]}

TextInputs == {Undefined, <<" ">>, <<" ", "n", "o", "t", "e">>}

TypeInputs == {Undefined, <<"N", "O", "T", "E">>}

MaxLimit == 2

\* omitted, the least and the greatest the schema admits, and one between
LimitInputs == {UndefinedLimit, 1, MaxLimit, 100}

NameInputs == {<<>>, <<" ">>, <<" ", "x", " ">>}

GetSpaceInfoInputs == [spaceId : SpaceIdInputs]

SearchEntitiesInputs ==
    [spaceId : SearchSpaceIdInputs, text : TextInputs, type : TypeInputs,
     date : SearchDateInputs, dateFrom : SearchRangeInputs, dateTo : SearchRangeInputs,
     limit : LimitInputs]

GetEntityByIdInputs ==
    [entityId : {<<"e", "1">>}, structureId : {<<"s", "1">>}, spaceId : SpaceIdInputs]

ListTasksInputs ==
    [spaceId : {Undefined, ExplicitUuid, NonUuid}, status : {Undefined, <<"open">>},
     date : DateInputs, dateFrom : RangeInputs, dateTo : RangeInputs]

CreateTaskInputs ==
    [spaceId : SpaceIdInputs, title : NameInputs,
     description : {Undefined, <<" ", "d">>},
     dueDate : {Undefined, <<>>, YesterdayMixed, NoSuchDay, <<" ">> \o LeapDay}]

UpdateTaskInputs ==
    [taskId : {<<" ">>, <<" ", "t", "1">>}, spaceId : {Undefined, ExplicitUuid, NonUuid},
     title : {Undefined, <<" ">>, <<" ", "x", " ">>},
     description : {Undefined, Null, <<" ">>, <<"d">>},
     dueDate : {Undefined, Null, NoSuchDay, LeapDay},
     status : {Undefined, <<"completed">>}]

CompleteTaskInputs ==
    [taskId : {<<>>, <<" ", "t", "1">>}, spaceId : SpaceIdInputs,
     completed : {Undefined, JsTrue, JsFalse}]

\* parsed JSON values: null, an object without the expected field, or an object
\* whose expected field (spaces, structures, results) is `list`
JsonNull == [kind |-> "null", has |-> FALSE, list |-> <<>>]

JsonObject(list) == [kind |-> "object", has |-> TRUE, list |-> list]

JsonWithoutField == [kind |-> "object", has |-> FALSE, list |-> <<>>]

NoJson == [kind |-> "none", has |-> FALSE, list |-> <<>>]

Note == <<"N", "o", "t", "e">>

Space1 == [id |-> ExplicitUuid, title |-> <<"H", "o", "m", "e">>]

Structure1 == [id |-> <<"s", "1">>, title |-> Note, pluralName |-> Note \o <<"s">>]

Structure2 == [id |-> <<"s", "2">>, title |-> <<"D", "a", "y">>, pluralName |-> Undefined]

Result1 == [id |-> <<"e", "1">>, structureId |-> <<"s", "1">>, title |-> <<"a">>]

Result2 == [id |-> <<"e", "2">>, structureId |-> <<"s", "2">>, title |-> <<"b">>]

Result3 == [id |-> <<"e", "3">>, structureId |-> <<"n", "o", "t", "e">>, title |-> <<"c">>]

Result4 == [id |-> <<"e", "4">>, structureId |-> <<"s", "1">>, title |-> <<"d">>]

\* one lookup result more than the default limit, of two structures in turn
ManyResults ==
    [i \in 1..(DEFAULT_LIMIT + 1) |->
        [id |-> <<"e">> \o NumberToString(i),
         structureId |-> IF i % 2 = 1 THEN <<"s", "1">> ELSE <<"s", "2">>,
         title |-> <<"m">>]]

JsonValues(path) ==
    {JsonNull, JsonWithoutField} \cup
    (CASE path = "/spaces" -> {JsonObject(<<>>), JsonObject(<<Space1>>)}
       [] path = "/space-info" -> {JsonObject(<<Structure2>>), JsonObject(<<Structure1, Structure2>>)}
       [] path = "/lookup" ->
            {JsonObject(<<>>), JsonObject(<<Result1, Result2, Result3, Result4>>),
             JsonObject(ManyResults)}
       [] OTHER -> {JsonObject(<<>>)})

TextBody(raw) == [raw |-> raw, isJson |-> FALSE, json |-> NoJson]

JsonBody(json) == [raw |-> <<"{", "}">>, isJson |-> TRUE, json |-> json]

NoHeaders == [retryAfter |-> Null, ratelimitReset |-> Null]

Response(status, headers, body) ==
    [kind |-> "response", status |-> status, headers |-> headers, body |-> body]

ErrorStatuses == {400, 401, 404, 429, 503}

\* what the transport can do with one request
FetchOutcomes(path) ==
    {[kind |-> "throw_error", status |-> 0, headers |-> NoHeaders, body |-> TextBody(<<>>)],
     [kind |-> "throw_value", status |-> 0, headers |-> NoHeaders, body |-> TextBody(<<>>)]}
    \cup {Response(st, NoHeaders, TextBody(<<>>)) : st \in ErrorStatuses}
    \cup {Response(401, NoHeaders, TextBody(<<"n", "o">>))}
    \cup {Response(200, NoHeaders, TextBody(raw)) : raw \in {<<>>, <<" ">>, <<"<", "p", ">">>}}
    \cup {Response(200, NoHeaders, JsonBody(json)) : json \in JsonValues(path)}

\* ------------------------------------------------------------------------
\* State
\* ------------------------------------------------------------------------

ReadQueryTools == {"get_space_info", "search_entities", "get_entity_by_id", "list_tasks"}

MutationTools == {"create_task", "update_task", "complete_task"}

NotLoaded == [baseUrl |-> "", apiToken |-> Undefined, defaultSpaceId |-> Undefined]

NoCall == [tool |-> "", input |-> NoDetails, now |-> [year |-> 0, month |-> 0, day |-> 0]]

NoFrame ==
    [filters |-> NoDetails, resolvedSpaceId |-> Undefined, spaces |-> NoJson,
     spaceInfo |-> NoJson, lookup |-> NoJson]

VARIABLES
    phase,       \* "init", "running" (main connected the server), "failed"
    config,      \* the CapacitiesConfig main loaded
    registered,  \* names of the tools registered on the server
    call,        \* the tool call in progress: tool, input, clock
    pc,          \* "idle", "await_all", "await_lookup", "await_space_info", "done"
    frame,       \* locals of the suspended handler
    pending,     \* paths of the HTTP calls in flight
    httpCalls,   \* paths of the HTTP calls issued during the current call, in order
    result,      \* the tool result returned to the RPC host
    caught,      \* the value the handler's catch block caught, NoError if none
    raised,      \* that value as first thrown (in requestJson: before it is normalised)
    threw,       \* the handler rejected to the RPC host
    fn,          \* the function applied on its own ("none" in the server process)
    arg,         \* its arguments
    out,         \* Pending, then what it returned or threw
    history      \* the client operations called on their own so far, oldest first

vars ==
    <<phase, config, registered, call, pc, frame, pending, httpCalls, result, caught, raised,
      threw, fn, arg, out, history>>

\* no function applied on its own
NoArgument == [none |-> TRUE]

Pending == [pending |-> TRUE]

ServerInit ==
    /\ phase = "init"
    /\ config = NotLoaded
    /\ registered = {}
    /\ call = NoCall
    /\ pc = "idle"
    /\ frame = NoFrame
    /\ pending = {}
    /\ httpCalls = <<>>
    /\ result = NoResult
    /\ caught = NoError
    /\ raised = NoError
    /\ threw = FALSE
    /\ history = <<>>

Init ==
    /\ ServerInit
    /\ fn = "none"
    /\ arg = NoArgument
    /\ out = Pending

\* the handler settles: its result goes back to the RPC host
SettleFrom(h, origin) ==
    /\ result' = h.result
    /\ caught' = h.caught
    /\ raised' = origin
    /\ threw' = h.threw
    /\ pc' = "done"

Settle(h) == SettleFrom(h, h.caught)

Suspend(at) ==
    /\ pc' = at
    /\ UNCHANGED <<result, caught, raised, threw>>

CanCall(tool) == phase = "running" /\ pc = "idle" /\ tool \in registered

\* ------------------------------------------------------------------------
\* index.ts
\* ------------------------------------------------------------------------

\* the tools main() registers before it connects the transport
mainRegisters == ReadQueryTools

\* main(): load the configuration, register the tools, connect
Main(env) ==
    /\ phase = "init"
    /\ LET loaded == loadCapacitiesConfig(env)
       IN  IF loaded.ok
           THEN /\ config' = loaded.value
                /\ registered' = mainRegisters
                /\ phase' = "running"
           ELSE /\ phase' = "failed"
                /\ UNCHANGED <<config, registered>>
    /\ UNCHANGED <<call, pc, frame, pending, httpCalls, result, caught, raised, threw>>
    /\ UNCHANGED <<fn, arg, out, history>>

\* registerMutationTools(server, {config}): exported by mutation-tools.ts, and
\* called by no code of main()
RegisterMutationTools ==
    /\ phase = "running"
    /\ pc = "idle"
    /\ registered \cap MutationTools = {}
    /\ registered' = registered \cup MutationTools
    /\ UNCHANGED <<phase, config, call, pc, frame, pending, httpCalls, result, caught, raised, threw>>
    /\ UNCHANGED <<fn, arg, out, history>>

\* ------------------------------------------------------------------------
\* Tool calls
\* ------------------------------------------------------------------------

CallGetSpaceInfo(input) ==
    /\ CanCall("get_space_info")
    /\ call' = [tool |-> "get_space_info", input |-> input, now |-> NoCall.now]
    /\ LET resolvedSpaceId == resolveSpaceId(input.spaceId, config)
           second == getSpaceInfo(resolvedSpaceId.value, config)
       IN  IF ~resolvedSpaceId.ok
           THEN /\ Settle(tryCatch("get_space_info", resolvedSpaceId))
                /\ UNCHANGED <<frame, pending>>
                /\ httpCalls' = <<>>
           ELSE IF ~second.ok
           THEN \* Promise.all rejects with the second operation's error
                /\ Settle(tryCatch("get_space_info", second))
                /\ UNCHANGED frame
                /\ pending' = {getSpaces.value.path}
                /\ httpCalls' = <<getSpaces.value.path>>
           ELSE /\ Suspend("await_all")
                /\ frame' = [NoFrame EXCEPT !.resolvedSpaceId = resolvedSpaceId.value]
                /\ pending' = {getSpaces.value.path, second.value.path}
                /\ httpCalls' = <<getSpaces.value.path, second.value.path>>
    /\ UNCHANGED <<phase, config, registered>>
    /\ UNCHANGED <<fn, arg, out, history>>

\* the search_entities handler has run to `start`: settled, or awaiting the lookup
SearchEntitiesStarted(start) ==
    IF ~start.ok
    THEN /\ Settle(tryCatch("search_entities", start))
         /\ UNCHANGED <<frame, pending>>
         /\ httpCalls' = <<>>
    ELSE IF ~start.value.await
    THEN /\ Settle(Settled(start.value.result, NoError))
         /\ UNCHANGED <<frame, pending>>
         /\ httpCalls' = <<>>
    ELSE /\ Suspend("await_lookup")
         /\ frame' = [NoFrame EXCEPT !.filters = start.value.filters,
                                     !.resolvedSpaceId = start.value.resolvedSpaceId]
         /\ pending' = {"/lookup"}
         /\ httpCalls' = <<"/lookup">>

CallSearchEntities(input, now) ==
    /\ CanCall("search_entities")
    /\ call' = [tool |-> "search_entities", input |-> input, now |-> now]
    /\ SearchEntitiesStarted(searchEntitiesStart(input, config, now))
    /\ UNCHANGED <<phase, config, registered>>
    /\ UNCHANGED <<fn, arg, out, history>>

\* a handler that never awaits
CallSync(tool, input, now, h) ==
    /\ CanCall(tool)
    /\ call' = [tool |-> tool, input |-> input, now |-> now]
    /\ Settle(h)
    /\ httpCalls' = <<>>
    /\ UNCHANGED <<phase, config, registered, frame, pending>>
    /\ UNCHANGED <<fn, arg, out, history>>

CallGetEntityById(input) ==
    CallSync("get_entity_by_id", input, NoCall.now, getEntityByIdHandler(input, config))

CallListTasks(input, now) ==
    CallSync("list_tasks", input, now, listTasksHandler(input, now))

CallCreateTask(input, now) ==
    CallSync("create_task", input, now, createTaskHandler(input, config, now))

CallUpdateTask(input, now) ==
    CallSync("update_task", input, now, updateTaskHandler(input, config, now))

CallCompleteTask(input) ==
    CallSync("complete_task", input, NoCall.now, completeTaskHandler(input, config))

\* ------------------------------------------------------------------------
\* HTTP calls settle
\* ------------------------------------------------------------------------

\* get_space_info: one of the two calls under Promise.all settles
SpaceInfoFetchSettles(path, outcome) ==
    /\ pc = "await_all"
    /\ path \in pending
    /\ pending' = pending \ {path}
    /\ LET r == requestJson(outcome, Method(path), path)
           got == IF path = "/spaces" THEN [frame EXCEPT !.spaces = r.value]
                  ELSE [frame EXCEPT !.spaceInfo = r.value]
       IN  IF ~r.ok
           THEN /\ SettleFrom(tryCatch("get_space_info", r),
                        requestJsonTry(outcome, Method(path), path).error)
                /\ UNCHANGED frame
           ELSE IF pending' # {}
           THEN /\ Suspend("await_all")
                /\ frame' = got
           ELSE /\ Settle(tryCatch("get_space_info",
                        finishGetSpaceInfo(got.resolvedSpaceId, got.spaces, got.spaceInfo)))
                /\ frame' = got
    /\ UNCHANGED <<phase, config, registered, call, httpCalls>>
    /\ UNCHANGED <<fn, arg, out, history>>

\* the structure metadata fetched for every search
needsStructureMetadata_Always(filters) == TRUE

\* if (filters.type): the type filter, and with it the structure metadata call
needsStructureMetadata(filters) == Truthy(filters.type)

\* search_entities: the lookup settles
LookupSettles(outcome) ==
    /\ pc = "await_lookup"
    /\ "/lookup" \in pending
    /\ LET r == requestJson(outcome, "POST", "/lookup")
           second == getSpaceInfo(frame.resolvedSpaceId, config)
       IN  IF ~r.ok
           THEN /\ SettleFrom(tryCatch("search_entities", r),
                        requestJsonTry(outcome, "POST", "/lookup").error)
                /\ pending' = {}
                /\ UNCHANGED <<frame, httpCalls>>
           ELSE IF r.value.kind = "null"
           THEN \* lookupResponse.results on null
                /\ Settle(tryCatch("search_entities", Throw(TypeError)))
                /\ frame' = [frame EXCEPT !.lookup = r.value]
                /\ pending' = {}
                /\ UNCHANGED httpCalls
           ELSE IF needsStructureMetadata(frame.filters)
           THEN IF ~second.ok
                THEN /\ Settle(tryCatch("search_entities", second))
                     /\ pending' = {}
                     /\ UNCHANGED <<frame, httpCalls>>
                ELSE /\ Suspend("await_space_info")
                     /\ frame' = [frame EXCEPT !.lookup = r.value]
                     /\ pending' = {second.value.path}
                     /\ httpCalls' = Append(httpCalls, second.value.path)
           ELSE /\ Settle(tryCatch("search_entities",
                        finishSearchEntities(frame.filters, r.value, FALSE, NoJson)))
                /\ frame' = [frame EXCEPT !.lookup = r.value]
                /\ pending' = {}
                /\ UNCHANGED httpCalls
    /\ UNCHANGED <<phase, config, registered, call>>
    /\ UNCHANGED <<fn, arg, out, history>>

\* search_entities: the structure metadata call settles
SearchSpaceInfoSettles(outcome) ==
    /\ pc = "await_space_info"
    /\ "/space-info" \in pending
    /\ pending' = {}
    /\ LET r == requestJson(outcome, "GET", "/space-info")
       IN  IF ~r.ok
           THEN /\ SettleFrom(tryCatch("search_entities", r),
                        requestJsonTry(outcome, "GET", "/space-info").error)
                /\ UNCHANGED frame
           ELSE /\ Settle(tryCatch("search_entities",
                        finishSearchEntities(frame.filters, frame.lookup, TRUE, r.value)))
                /\ frame' = [frame EXCEPT !.spaceInfo = r.value]
    /\ UNCHANGED <<phase, config, registered, call, httpCalls>>
    /\ UNCHANGED <<fn, arg, out, history>>

\* a call still in flight when Promise.all rejected settles: nothing awaits it
LateFetchSettles(path) ==
    /\ pc = "done"
    /\ path \in pending
    /\ pending' = pending \ {path}
    /\ UNCHANGED <<phase, config, registered, call, pc, frame, httpCalls, result, caught, raised, threw>>
    /\ UNCHANGED <<fn, arg, out, history>>

\* the RPC host has the result; the server is ready for the next call
Deliver ==
    /\ pc = "done"
    /\ pending = {}
    /\ pc' = "idle"
    /\ call' = NoCall
    /\ frame' = NoFrame
    /\ httpCalls' = <<>>
    /\ result' = NoResult
    /\ caught' = NoError
    /\ raised' = NoError
    /\ threw' = FALSE
    /\ UNCHANGED <<phase, config, registered, pending>>
    /\ UNCHANGED <<fn, arg, out, history>>

\* Each disjunct draws its inputs after its guard.
AnyMain == phase = "init" /\ \E env \in EnvSources : Main(env)

AnyGetSpaceInfo ==
    CanCall("get_space_info") /\ \E input \in GetSpaceInfoInputs : CallGetSpaceInfo(input)

AnySearchEntities ==
    /\ CanCall("search_entities")
    /\ \E input \in SearchEntitiesInputs, now \in Clocks : CallSearchEntities(input, now)

AnyGetEntityById ==
    CanCall("get_entity_by_id") /\ \E input \in GetEntityByIdInputs : CallGetEntityById(input)

AnyListTasks ==
    /\ CanCall("list_tasks")
    /\ \E input \in ListTasksInputs, now \in Clocks : CallListTasks(input, now)

AnyCreateTask ==
    /\ CanCall("create_task")
    /\ \E input \in CreateTaskInputs, now \in Clocks : CallCreateTask(input, now)

AnyUpdateTask ==
    /\ CanCall("update_task")
    /\ \E input \in UpdateTaskInputs, now \in Clocks : CallUpdateTask(input, now)

AnyCompleteTask ==
    CanCall("complete_task") /\ \E input \in CompleteTaskInputs : CallCompleteTask(input)

AnySpaceInfoFetchSettles ==
    /\ pc = "await_all"
    /\ \E path \in pending :
            \E outcome \in FetchOutcomes(path) : SpaceInfoFetchSettles(path, outcome)

AnyLookupSettles ==
    pc = "await_lookup" /\ \E outcome \in FetchOutcomes("/lookup") : LookupSettles(outcome)

AnySearchSpaceInfoSettles ==
    /\ pc = "await_space_info"
    /\ \E outcome \in FetchOutcomes("/space-info") : SearchSpaceInfoSettles(outcome)

AnyLateFetchSettles == pc = "done" /\ \E path \in pending : LateFetchSettles(path)

Next ==
    \/ AnyMain
    \/ RegisterMutationTools
    \/ AnyGetSpaceInfo
    \/ AnySearchEntities
    \/ AnyGetEntityById
    \/ AnyListTasks
    \/ AnyCreateTask
    \/ AnyUpdateTask
    \/ AnyCompleteTask
    \/ AnySpaceInfoFetchSettles
    \/ AnyLookupSettles
    \/ AnySearchSpaceInfoSettles
    \/ AnyLateFetchSettles
    \/ Deliver

Spec == Init /\ [][Next]_vars

\* ------------------------------------------------------------------------
\* Functions applied on their own: the arguments are drawn at the start, one
\* step applies the function
\* ------------------------------------------------------------------------
FourDigits(n) ==
    <<DigitChar(n \div 1000), DigitChar((n \div 100) % 10), DigitChar((n \div 10) % 10),
      DigitChar(n % 10)>>

TwoDigits(n) == <<DigitChar((n \div 10) % 10), DigitChar(n % 10)>>

DateText(year, month, day) ==
    FourDigits(year) \o <<"-">> \o TwoDigits(month) \o <<"-">> \o TwoDigits(day)

Years == {0, 50, 99, 100, 1900, 2000, 2023, 2024, 9999}

Months == {0, 1, 2, 4, 12, 13}

Days == {0, 1, 28, 29, 30, 31, 32}

AbsoluteDateTexts == {DateText(y, m, d) : y \in Years, m \in Months, d \in Days}

YesterdayTexts ==
    {Yesterday, YesterdayMixed, <<" ", "Y", "E", "S", "T", "E", "R", "D", "A", "Y">>}

Day(year, month, day) == [year |-> year, month |-> month, day |-> day]

\* local calendar days of the clock (now = new Date())
ReferenceDays ==
    {Day(2026, 2, 19), Day(2024, 3, 1), Day(2023, 3, 1), Day(2000, 3, 1), Day(2100, 3, 1),
     Day(2024, 1, 1), Day(2023, 5, 1), Day(2023, 8, 1), Day(2024, 12, 31), Day(2025, 1, 1)}

NormalizeDateInputArguments ==
    [input : AbsoluteDateTexts, now : {Day(2026, 2, 19)}]
        \cup [input : YesterdayTexts, now : ReferenceDays]

\* strings laid out as a UUID, with every kind of character at the checked places
UuidLikeTexts ==
    {Uuid(c, version, variant) :
        c \in {"1", "A", "f", "g"}, version \in {"0", "1", "5", "6"},
        variant \in {"7", "8", "B", "c"}}

ResolveSpaceIdArguments ==
    [explicitSpaceId :
        {Undefined, <<>>, <<" ">>, <<" ">> \o ExplicitUuid \o <<" ">>, SubSeq(DefaultUuid, 1, 35),
         DefaultUuid \o <<"1">>} \cup UuidLikeTexts,
     config : [defaultSpaceId : {Undefined, DefaultUuid, NonUuid}]]

LoadCapacitiesConfigArguments ==
    [CAPACITIES_API_TOKEN : {Undefined, <<>>, <<" ">>, <<" ">> \o Token \o <<" ">>},
     CAPACITIES_SPACE_ID :
        {Undefined, <<>>, <<" ">>, DefaultUuid \o <<" ">>, ExplicitUuid, NonUuid,
         Uuid("g", "4", "8"), SubSeq(DefaultUuid, 1, 35)}]

NonSuccessStatuses == {300, 400, 401, 403, 404, 429, 499, 500, 503, 555, 599}

RateLimitHeaders ==
    [retryAfter : {Null, <<>>, <<"5">>}, ratelimitReset : {Null, <<"1", "7">>}]

CreateHttpErrorArguments ==
    {Response(status, headers, TextBody(raw)) :
        status \in NonSuccessStatuses, headers \in RateLimitHeaders,
        raw \in {<<>>, <<" ">>, <<" ", "n", "o", " ">>}}

SuccessStatuses == {200, 201, 204}

ResponseBodies ==
    {TextBody(raw) : raw \in {<<>>, <<" ">>, <<" ", " ">>, <<"<", "p", ">">>, <<" ", "o", "k">>}}
        \cup {JsonBody(json) : json \in {JsonNull, JsonWithoutField, JsonObject(<<>>)}}

RequestJsonArguments ==
    [path : {AVAILABLE_ENDPOINTS[i] : i \in DOMAIN AVAILABLE_ENDPOINTS},
     outcome :
        {Response(status, NoHeaders, body) :
            status \in SuccessStatuses \cup {404}, body \in ResponseBodies}
        \cup {o \in FetchOutcomes("/spaces") : o.kind # "response"}]

FilterDates == {Undefined, YesterdayMixed, LeapDay, NoSuchDay, DateText(2024, 3, 1)}

SearchEntitiesFilterArguments ==
    [input :
        [spaceId : {Undefined}, text : {<<" ", "n", "o", "t", "e">>}, type : {Undefined},
         date : FilterDates, dateFrom : FilterDates, dateTo : FilterDates,
         limit : {UndefinedLimit}],
     now : {Day(2024, 3, 1), Day(2024, 3, 2)}]

ListTasksFilterArguments ==
    [input :
        [spaceId : {Undefined}, status : {Undefined}, date : FilterDates,
         dateFrom : FilterDates, dateTo : FilterDates],
     now : {Day(2024, 3, 1), Day(2024, 3, 2)}]

\* a structure whose title is another structure's id
Structure3 == [id |-> <<"S", "3">>, title |-> <<"s", "2">>, pluralName |-> Undefined]

FilterByTypeArguments ==
    [typeFilter :
        {<<"N", "O", "T", "E">>, <<"n", "o", "t", "e", "s">>, <<"S", "1">>, <<"s", "2">>,
         <<"z">>},
     structures :
        {<<>>, <<Structure2>>, <<Structure1, Structure2>>, <<Structure1, Structure2, Structure3>>},
     results :
        {<<>>, <<Result3>>, <<Result1, Result4>>, <<Result1, Result2, Result3, Result4>>,
         <<Result2, [Result2 EXCEPT !.structureId = <<"S", "3">>]>>}]

\* date, dateFrom, dateTo that pass validation
ValidDateInputs ==
    {<<Undefined, Undefined, Undefined>>, <<<<>>, Undefined, Undefined>>,
     <<YesterdayMixed, Undefined, Undefined>>, <<LeapDay, Undefined, Undefined>>,
     <<Undefined, EarlyDay, LeapDay>>, <<Undefined, LeapDay, LeapDay>>}

SearchInputWith(rest, dates) ==
    [spaceId |-> rest.spaceId, text |-> rest.text, type |-> rest.type, limit |-> rest.limit,
     date |-> dates[1], dateFrom |-> dates[2], dateTo |-> dates[3]]

\* two calls that differ at most in their dates, and the responses both receive
SearchEntitiesArguments ==
    [rest : [spaceId : {Undefined}, text : {<<" ", "n", "o", "t", "e">>},
             type : TypeInputs, limit : {UndefinedLimit, 1}],
     first : ValidDateInputs, second : ValidDateInputs, now : Clocks,
     config : {[baseUrl |-> CAPACITIES_API_BASE_URL, apiToken |-> Token,
                defaultSpaceId |-> DefaultUuid]},
     lookupResponse : {JsonObject(<<>>), JsonObject(<<Result1, Result2, Result3, Result4>>),
                       JsonObject(ManyResults)},
     spaceInfoResponse : {JsonObject(<<Structure2>>), JsonObject(<<Structure1, Structure2>>)}]

PureFunctions ==
    {"normalizeDateInput",
     "resolveSpaceId",
     "loadCapacitiesConfig",
     "createHttpError",
     "requestJson",
     "normalizeSearchEntitiesFilters",
     "normalizeListTasksFilters",
     "filterByType",
     "search_entities"}

PureArguments(f) ==
    CASE f = "normalizeDateInput" -> NormalizeDateInputArguments
      [] f = "resolveSpaceId" -> ResolveSpaceIdArguments
      [] f = "loadCapacitiesConfig" -> LoadCapacitiesConfigArguments
      [] f = "createHttpError" -> CreateHttpErrorArguments
      [] f = "requestJson" -> RequestJsonArguments
      [] f = "normalizeSearchEntitiesFilters" -> SearchEntitiesFilterArguments
      [] f = "normalizeListTasksFilters" -> ListTasksFilterArguments
      [] f = "filterByType" -> FilterByTypeArguments
      [] f = "search_entities" -> SearchEntitiesArguments

PureInit ==
    /\ ServerInit
    /\ fn \in PureFunctions
    /\ arg \in PureArguments(fn)
    /\ out = Pending

Applied(f) == fn = f /\ out # Pending

Returns(value) ==
    /\ out = Pending
    /\ out' = value
    /\ UNCHANGED <<phase, config, registered, call, pc, frame, pending, httpCalls, result,
                   caught, raised, threw, fn, arg, history>>

ApplyNormalizeDateInput ==
    /\ fn = "normalizeDateInput"
    /\ Returns(normalizeDateInput(arg.input, arg.now))

ApplyResolveSpaceId ==
    /\ fn = "resolveSpaceId"
    /\ Returns(resolveSpaceId(arg.explicitSpaceId, arg.config))

ApplyLoadCapacitiesConfig ==
    /\ fn = "loadCapacitiesConfig"
    /\ Returns(loadCapacitiesConfig(arg))

ApplyCreateHttpError ==
    /\ fn = "createHttpError"
    /\ Returns(Return(createHttpError(arg)))

ApplyRequestJson ==
    /\ fn = "requestJson"
    /\ Returns(requestJson(arg.outcome, Method(arg.path), arg.path))

ApplyNormalizeSearchEntitiesFilters ==
    /\ fn = "normalizeSearchEntitiesFilters"
    /\ Returns(normalizeSearchEntitiesFilters(arg.input, arg.now))

ApplyNormalizeListTasksFilters ==
    /\ fn = "normalizeListTasksFilters"
    /\ Returns(normalizeListTasksFilters(arg.input, arg.now))

ApplyFilterByType ==
    /\ fn = "filterByType"
    /\ Returns(Return(filterByType(arg.results, arg.typeFilter, arg.structures)))

ApplySearchEntities ==
    /\ fn = "search_entities"
    /\ Returns([first |-> searchEntitiesAnswered(SearchInputWith(arg.rest, arg.first), arg.config,
                            arg.now, arg.lookupResponse, arg.spaceInfoResponse).result,
                second |-> searchEntitiesAnswered(SearchInputWith(arg.rest, arg.second), arg.config,
                            arg.now, arg.lookupResponse, arg.spaceInfoResponse).result])

PureNext ==
    \/ ApplyNormalizeDateInput
    \/ ApplyResolveSpaceId
    \/ ApplyLoadCapacitiesConfig
    \/ ApplyCreateHttpError
    \/ ApplyRequestJson
    \/ ApplyNormalizeSearchEntitiesFilters
    \/ ApplyNormalizeListTasksFilters
    \/ ApplyFilterByType
    \/ ApplySearchEntities

PureSpec == PureInit /\ [][PureNext]_vars

\* ------------------------------------------------------------------------
\* The remote client on its own: operations are called one after another,
\* each call's HTTP request settles with whatever the transport does
\* ------------------------------------------------------------------------

MaxOperations == 3

ClientOperations == {"getSpaces", "getSpaceInfo", "lookup", "saveWeblink", "saveToDailyNote"}

ClientSpaceIds == {Undefined, ExplicitUuid, NonUuid}

ClientArguments(operation) ==
    CASE operation = "getSpaces" -> {NoArgument}
      [] operation = "getSpaceInfo" -> [spaceId : ClientSpaceIds]
      [] operation = "lookup" -> [searchTerm : {<<" ">>, <<" ", "n">>}, spaceId : ClientSpaceIds]
      [] operation = "saveWeblink" -> [spaceId : ClientSpaceIds]
      [] operation = "saveToDailyNote" -> [spaceId : ClientSpaceIds]

ClientConfigs ==
    {[baseUrl |-> CAPACITIES_API_BASE_URL, apiToken |-> Token, defaultSpaceId |-> id] :
        id \in {Undefined, DefaultUuid}}

\* the client-side part of an operation: Return(the request) or Throw
clientRequest(operation, a, cfg) ==
    CASE operation = "getSpaces" -> getSpaces
      [] operation = "getSpaceInfo" -> getSpaceInfo(a.spaceId, cfg)
      [] operation = "lookup" -> lookup(a.searchTerm, a.spaceId, cfg)
      [] operation = "saveWeblink" -> saveWeblink(a, cfg)
      [] operation = "saveToDailyNote" -> saveToDailyNote(a, cfg)

\* new CapacitiesApiClient(config)
ClientInit ==
    /\ phase = "running"
    /\ config \in ClientConfigs
    /\ registered = {}
    /\ call = NoCall
    /\ pc = "idle"
    /\ frame = NoFrame
    /\ pending = {}
    /\ httpCalls = <<>>
    /\ result = NoResult
    /\ caught = NoError
    /\ raised = NoError
    /\ threw = FALSE
    /\ fn = "none"
    /\ arg = NoArgument
    /\ out = Pending
    /\ history = <<>>

\* what the history keeps of an operation
Operation(operation, request) ==
    [operation |-> operation, passed |-> request.ok,
     path |-> IF request.ok THEN request.value.path ELSE "",
     settled |-> IF request.ok THEN "in flight" ELSE "rejected"]

\* an operation is called: it rejects on its client-side checks, or issues its
\* request and awaits the response
ClientOperationCalled(operation, a, request) ==
    /\ fn' = operation
    /\ arg' = a
    /\ history' = Append(history, Operation(operation, request))
    /\ IF request.ok
       THEN /\ httpCalls' = httpCalls \o requestJsonFetches(request.value)
            /\ pending' = {request.value.path}
            /\ out' = Pending
       ELSE /\ out' = request
            /\ UNCHANGED <<httpCalls, pending>>
    /\ UNCHANGED <<phase, config, registered, call, pc, frame, result, caught, raised, threw>>

\* the request of the operation in progress settles: the operation resolves
\* with the parsed body or rejects with the normalised error
ClientFetchSettles(path, outcome, settled) ==
    /\ pending' = {}
    /\ out' = settled
    /\ history' = [history EXCEPT ![Len(history)].settled =
                        IF settled.ok THEN "resolved" ELSE "rejected"]
    /\ UNCHANGED <<phase, config, registered, call, pc, frame, httpCalls, result, caught,
                   raised, threw, fn, arg>>

AnyClientOperation ==
    /\ pending = {}
    /\ Len(history) < MaxOperations
    /\ \E operation \in ClientOperations :
            \E a \in ClientArguments(operation) :
                ClientOperationCalled(operation, a, clientRequest(operation, a, config))

AnyClientFetchSettles ==
    /\ fn \in ClientOperations
    /\ pending # {}
    /\ \E path \in pending :
            \E outcome \in FetchOutcomes(path) :
                ClientFetchSettles(path, outcome, requestJson(outcome, Method(path), path))

ClientNext ==
    \/ AnyClientOperation
    \/ AnyClientFetchSettles

ClientSpec == ClientInit /\ [][ClientNext]_vars

\* ------------------------------------------------------------------------
\* The three shapes of a tool payload
\* ------------------------------------------------------------------------
HasSupportedFlag(r) == "supported" \in r.keys

HasOkFalse(r) == "ok" \in r.keys /\ r.ok = JsFalse

HasIsError(r) == "isError" \in r.top /\ r.isError = JsTrue

SuccessShape(r) ==
    /\ "tool" \in r.keys
    /\ ~HasSupportedFlag(r) /\ ~HasOkFalse(r) /\ ~HasIsError(r)
    /\ "error" \notin r.keys

UnsupportedShape(r) ==
    /\ "tool" \in r.keys
    /\ HasSupportedFlag(r) /\ r.supported = JsFalse
    /\ ~HasOkFalse(r) /\ ~HasIsError(r)

ErrorShape(r) ==
    /\ "tool" \in r.keys
    /\ HasOkFalse(r) /\ HasIsError(r) /\ ~HasSupportedFlag(r)

ShapesOf(r) ==
    {shape \in {"success", "unsupported", "error"} :
        \/ shape = "success" /\ SuccessShape(r)
        \/ shape = "unsupported" /\ UnsupportedShape(r)
        \/ shape = "error" /\ ErrorShape(r)}

Done(tool) == pc = "done" /\ call.tool = tool

\* ------------------------------------------------------------------------
\* C1
\* ------------------------------------------------------------------------
\* C1: every payload a tool call ends with has exactly one of the three
\* shapes: success (no supported flag, no ok:false, no isError), explicit
\* unsupported (supported:false, no ok:false, no isError) or error (ok:false
\* and isError:true, no supported flag).
C1_ExactlyOneShape ==
    pc = "done" => /\ ~threw
                   /\ result.tool = call.tool
                   /\ Cardinality(ShapesOf(result)) = 1

\* a get_space_info call that ended with a success payload
C1_Witness == Done("get_space_info") /\ SuccessShape(result) /\ "structures" \in result.keys

\* ------------------------------------------------------------------------
\* C2
\* ------------------------------------------------------------------------
\* C2: whatever is thrown in a handler or in the remote client, the call ends
\* with an error result whose code is one of the six codes and which carries a
\* message and an actionable message; a classified error keeps its code,
\* message, status and guidance, anything else becomes network_error; no call
\* ends by throwing to the RPC host.
C2_ThrownEndsAsClassifiedError ==
    pc = "done" =>
        /\ ~threw
        /\ raised # NoError =>
            /\ ErrorShape(result)
            /\ result.error.code \in CapacitiesErrorCode
            /\ result.error.message # <<>>
            /\ result.error.actionableMessage # <<>>
            /\ raised.kind = "CapacitiesError" =>
                /\ result.error.code = raised.code
                /\ result.error.message = raised.message
                /\ result.error.status = StatusOrNull(raised.status)
                /\ result.error.actionableMessage = raised.actionableMessage
            /\ raised.kind # "CapacitiesError" => result.error.code = "network_error"

\* a call in which something unclassified was thrown
C2_Witness ==
    /\ pc = "done"
    /\ raised.kind = "Error"
    /\ result.error.code = "network_error"

\* ------------------------------------------------------------------------
\* C3
\* ------------------------------------------------------------------------
\* C3: a call that ends with a validation_error or config_error result issued
\* no HTTP call.
C3_LocalErrorsBeforeAnyHttpCall ==
    (/\ pc = "done"
     /\ ErrorShape(result)
     /\ result.error.code \in {"validation_error", "config_error"})
        => httpCalls = <<>>

\* get_space_info refused for a missing space id, nothing sent
C3_Witness ==
    /\ Done("get_space_info")
    /\ ErrorShape(result)
    /\ result.error.code = "config_error"
    /\ httpCalls = <<>>

\* ------------------------------------------------------------------------
\* C4
\* ------------------------------------------------------------------------
TextAbsent(text) == text = Undefined \/ trim(text) = <<>>

\* C4: search_entities called without text (absent or blank) and with date
\* filters that pass validation returns the explicit-unsupported shape and
\* issues no remote call.
C4_SearchWithoutTextIsUnsupported ==
    (/\ Done("search_entities")
     /\ TextAbsent(call.input.text)
     /\ normalizeSearchEntitiesFilters(call.input, call.now).ok)
        => UnsupportedShape(result) /\ httpCalls = <<>>

\* ------------------------------------------------------------------------
\* C5
\* ------------------------------------------------------------------------
\* C5: once the server has started with a valid configuration, the registered
\* tools are exactly get_space_info, search_entities, get_entity_by_id,
\* list_tasks, create_task, update_task and complete_task.
C5_SevenToolsRegistered ==
    phase = "running" =>
        registered = {"get_space_info", "search_entities", "get_entity_by_id", "list_tasks",
                      "create_task", "update_task", "complete_task"}

\* ------------------------------------------------------------------------
\* What the claims call a valid date, a resolvable space and a normalised
\* request, stated without the program's own normalisers
\* ------------------------------------------------------------------------
IsLeapYear(year) == year % 4 = 0 /\ (year % 100 # 0 \/ year % 400 = 0)

DaysInMonth(year, month) ==
    IF month = 2 THEN (IF IsLeapYear(year) THEN 29 ELSE 28)
    ELSE IF month \in {4, 6, 9, 11} THEN 30 ELSE 31

YearOf(s) == ToNumber(SubSeq(s, 1, 4))

MonthOf(s) == ToNumber(SubSeq(s, 6, 7))

DayOf(s) == ToNumber(SubSeq(s, 9, 10))

IsCalendarDate(s) ==
    /\ MatchesAbsoluteDatePattern(s)
    /\ MonthOf(s) \in 1..12
    /\ DayOf(s) \in 1..DaysInMonth(YearOf(s), MonthOf(s))

IsYesterdayKeyword(s) == toLowerCase(trim(s)) = Yesterday

AcceptedDate(s) == IsYesterdayKeyword(s) \/ IsCalendarDate(trim(s))

DayBefore(now) ==
    IF now.day > 1 THEN [now EXCEPT !.day = now.day - 1]
    ELSE IF now.month > 1
    THEN [year |-> now.year, month |-> now.month - 1,
          day |-> DaysInMonth(now.year, now.month - 1)]
    ELSE [year |-> now.year - 1, month |-> 12, day |-> 31]

\* the calendar day an accepted date input names
DayNamed(s, now) ==
    IF IsYesterdayKeyword(s) THEN DayBefore(now)
    ELSE [year |-> YearOf(trim(s)), month |-> MonthOf(trim(s)), day |-> DayOf(trim(s))]

CanonicalText(d) ==
    NumberToString(d.year) \o <<"-">> \o padStart2(NumberToString(d.month))
        \o <<"-">> \o padStart2(NumberToString(d.day))

IsLaterDay(a, b) ==
    \/ a.year > b.year
    \/ a.year = b.year /\ a.month > b.month
    \/ a.year = b.year /\ a.month = b.month /\ a.day > b.day

Supplied(v) == v # Undefined /\ v # <<>>

Blank(v) == trim(v) = <<>>

EffectiveSpaceId(spaceId) ==
    IF Supplied(spaceId) /\ ~Blank(spaceId) THEN trim(spaceId) ELSE config.defaultSpaceId

SpaceResolves(spaceId) ==
    EffectiveSpaceId(spaceId) # Undefined /\ isUuid(EffectiveSpaceId(spaceId))

TrimmedOrAbsent(v) == IF ~Supplied(v) \/ Blank(v) THEN Undefined ELSE trim(v)

TrimmedOrKept(v) == IF v \in {Undefined, Null} THEN v ELSE trim(v)

CanonicalOrKept(v, now) ==
    IF v \in {Undefined, Null} THEN v ELSE CanonicalText(DayNamed(v, now))

NoUpdateField(input) ==
    /\ input.title = Undefined
    /\ input.description = Undefined
    /\ input.dueDate = Undefined
    /\ input.status = Undefined

ValidCreateTask(input) ==
    /\ ~Blank(input.title)
    /\ input.dueDate = Undefined \/ AcceptedDate(input.dueDate)

ValidUpdateTask(input) ==
    /\ ~Blank(input.taskId)
    /\ input.title = Undefined \/ ~Blank(input.title)
    /\ input.description \in {Undefined, Null} \/ ~Blank(input.description)
    /\ input.dueDate \in {Undefined, Null} \/ AcceptedDate(input.dueDate)
    /\ ~NoUpdateField(input)

ValidCompleteTask(input) == ~Blank(input.taskId)

ExpectedTask(input, now) ==
    [spaceId |-> EffectiveSpaceId(input.spaceId), title |-> trim(input.title),
     description |-> TrimmedOrAbsent(input.description),
     dueDate |-> CanonicalOrKept(input.dueDate, now)]

ExpectedUpdate(input, now) ==
    [taskId |-> trim(input.taskId), spaceId |-> EffectiveSpaceId(input.spaceId),
     title |-> TrimmedOrKept(input.title),
     description |-> TrimmedOrKept(input.description),
     dueDate |-> CanonicalOrKept(input.dueDate, now), status |-> input.status]

ExpectedAction(input) ==
    [taskId |-> trim(input.taskId), spaceId |-> EffectiveSpaceId(input.spaceId),
     completed |-> IF input.completed = Undefined THEN JsTrue ELSE input.completed]

FiveEndpoints == <<"/spaces", "/space-info", "/lookup", "/save-weblink", "/save-to-daily-note">>

Echoes(detailsKey, expected) ==
    /\ UnsupportedShape(result)
    /\ httpCalls = <<>>
    /\ DOMAIN result.details = {detailsKey, "availableEndpoints"}
    /\ result.details[detailsKey] = expected
    /\ result.details.availableEndpoints = FiveEndpoints

\* ------------------------------------------------------------------------
\* C6
\* ------------------------------------------------------------------------
\* C6: create_task, update_task and complete_task, called with input that
\* passes validation and a space id that resolves, return the
\* explicit-unsupported shape without any remote call; its details echo the
\* normalised request (trimmed strings, resolved space id, canonical dates,
\* completed defaulting to true) and list the five endpoints.
C6_MutationsEchoNormalizedRequest ==
    /\ (Done("create_task") /\ ValidCreateTask(call.input) /\ SpaceResolves(call.input.spaceId))
            => Echoes("requestedTask", ExpectedTask(call.input, call.now))
    /\ (Done("update_task") /\ ValidUpdateTask(call.input) /\ SpaceResolves(call.input.spaceId))
            => Echoes("requestedUpdate", ExpectedUpdate(call.input, call.now))
    /\ (Done("complete_task") /\ ValidCompleteTask(call.input)
            /\ SpaceResolves(call.input.spaceId))
            => Echoes("requestedAction", ExpectedAction(call.input))

\* complete_task called without `completed`, with the space taken from the
\* configuration: the echo says completed: true
C6_Witness ==
    /\ Done("complete_task")
    /\ call.input.completed = Undefined
    /\ call.input.spaceId = Undefined
    /\ UnsupportedShape(result)
    /\ result.details.requestedAction.completed = JsTrue
    /\ result.details.requestedAction.spaceId = DefaultUuid

\* ------------------------------------------------------------------------
\* C7
\* ------------------------------------------------------------------------
NeverAnErrorOrRemoteCall == UnsupportedShape(result) /\ ~threw /\ httpCalls = <<>>

\* C7 as stated: get_entity_by_id always returns supported:false, never an
\* error and never a remote call, and requestedEntity carries exactly the
\* entityId, structureId and spaceId the call received.
C7_EchoesReceivedSpaceId ==
    Done("get_entity_by_id") =>
        /\ NeverAnErrorOrRemoteCall
        /\ result.details.requestedEntity =
            [entityId |-> call.input.entityId, structureId |-> call.input.structureId,
             spaceId |-> IF call.input.spaceId = Undefined THEN Null
                         ELSE call.input.spaceId]

\* C7, amended: get_entity_by_id always returns supported:false, never an
\* error and never a remote call, whatever the spaceId and the configuration;
\* requestedEntity carries the entityId and structureId the call received and,
\* as spaceId, the received one untouched when one was supplied, otherwise the
\* configured default space id, or null when there is none.
C7_EchoesSpaceIdOrDefault ==
    Done("get_entity_by_id") =>
        /\ NeverAnErrorOrRemoteCall
        /\ result.details.requestedEntity.entityId = call.input.entityId
        /\ result.details.requestedEntity.structureId = call.input.structureId
        /\ call.input.spaceId # Undefined =>
                result.details.requestedEntity.spaceId = call.input.spaceId
        /\ (call.input.spaceId = Undefined /\ config.defaultSpaceId # Undefined) =>
                result.details.requestedEntity.spaceId = config.defaultSpaceId
        /\ (call.input.spaceId = Undefined /\ config.defaultSpaceId = Undefined) =>
                result.details.requestedEntity.spaceId = Null

\* called without spaceId on a server with a default space: the default is echoed
C7_Witness ==
    /\ Done("get_entity_by_id")
    /\ call.input.spaceId = Undefined
    /\ config.defaultSpaceId = DefaultUuid
    /\ result.details.requestedEntity.spaceId = DefaultUuid

\* ------------------------------------------------------------------------
\* C8
\* ------------------------------------------------------------------------
InvalidDateInput(v) == Supplied(v) /\ ~AcceptedDate(v)

InvalidCombination(input, now) ==
    \/ Supplied(input.date) /\ (Supplied(input.dateFrom) \/ Supplied(input.dateTo))
    \/ Supplied(input.dateFrom) # Supplied(input.dateTo)
    \/ /\ Supplied(input.dateFrom) /\ Supplied(input.dateTo)
       /\ IsLaterDay(DayNamed(input.dateFrom, now), DayNamed(input.dateTo, now))

BadListTasksDates(input, now) ==
    \/ InvalidDateInput(input.date)
    \/ InvalidDateInput(input.dateFrom)
    \/ InvalidDateInput(input.dateTo)
    \/ InvalidCombination(input, now)

AtLeastOneFieldMessage ==
    <<"Provide at least one update field: title, description, dueDate, or status.">>

\* C9: update_task with a non-empty taskId and none of title, description,
\* dueDate, status returns a validation_error, whatever the space id and the
\* configuration; a call that supplies one of them, a null description or
\* dueDate included, is not refused for that reason.
C9_UpdateNeedsOneField ==
    Done("update_task") =>
        /\ (~Blank(call.input.taskId) /\ NoUpdateField(call.input)) =>
                /\ ErrorShape(result)
                /\ result.error.code = "validation_error"
                /\ result.error.message = AtLeastOneFieldMessage
        /\ ~NoUpdateField(call.input) => result.error.message # AtLeastOneFieldMessage

\* no update field and a malformed space id: refused for the missing field
C9_Witness ==
    /\ Done("update_task")
    /\ NoUpdateField(call.input)
    /\ call.input.spaceId = NonUuid
    /\ result.error.code = "validation_error"
    /\ result.error.message = AtLeastOneFieldMessage

\* ------------------------------------------------------------------------
\* C10
\* ------------------------------------------------------------------------
\* C10: create_task with an empty or blank title returns a validation_error;
\* a title with surrounding whitespace is echoed trimmed.
C10_CreateTaskTitle ==
    Done("create_task") =>
        /\ Blank(call.input.title) =>
                ErrorShape(result) /\ result.error.code = "validation_error"
        /\ (~Blank(call.input.title) /\ UnsupportedShape(result)) =>
                result.details.requestedTask.title = trim(call.input.title)

\* the title "  x  " arrives as "x"
C10_Witness ==
    /\ Done("create_task")
    /\ call.input.title = <<" ", "x", " ">>
    /\ UnsupportedShape(result)
    /\ result.details.requestedTask.title = <<"x">>

\* ------------------------------------------------------------------------
\* C11
\* ------------------------------------------------------------------------
\* C11: for every string YYYY-MM-DD, years 0000 through 9999: if it denotes a
\* real calendar date, normalizeDateInput returns it unchanged, and returns
\* the same again for its output; if it does not, normalizeDateInput fails
\* with validation_error.
C11_AbsoluteDatesOfEveryYear ==
    (Applied("normalizeDateInput") /\ MatchesAbsoluteDatePattern(arg.input)) =>
        IF IsCalendarDate(arg.input)
        THEN /\ out = Return(arg.input)
             /\ normalizeDateInput(arg.input, arg.now) = out
        ELSE ~out.ok /\ out.error.code = "validation_error"

\* ------------------------------------------------------------------------
\* C12
\* ------------------------------------------------------------------------
\* C12: for every reference time, normalizeDateInput of "yesterday", in any
\* letter case and with surrounding whitespace, returns the calendar day
\* before the reference day as zero-padded YYYY-MM-DD, across month, year and
\* leap-day boundaries.
C12_YesterdayIsTheDayBefore ==
    (Applied("normalizeDateInput") /\ IsYesterdayKeyword(arg.input)) =>
        /\ out.ok
        /\ out.value = DateText(DayBefore(arg.now).year, DayBefore(arg.now).month,
                            DayBefore(arg.now).day)

\* "Yesterday " on 2024-03-01 is the leap day
C12_Witness ==
    /\ Applied("normalizeDateInput")
    /\ arg.input = YesterdayMixed
    /\ arg.now = Day(2024, 3, 1)
    /\ out = Return(LeapDay)

\* ------------------------------------------------------------------------
\* C13
\* ------------------------------------------------------------------------
HexDigits ==
    {"0", "1", "2", "3", "4", "5", "6", "7", "8", "9", "a", "b", "c", "d", "e", "f",
     "A", "B", "C", "D", "E", "F"}

AllIn(s, from, to, chars) == \A i \in from..to : s[i] \in chars

\* 8-4-4-4-12 hex groups, version nibble 1..5, variant nibble 8, 9, a or b
IsUuidShape(s) ==
    /\ Len(s) = 36
    /\ AllIn(s, 1, 8, HexDigits) /\ s[9] = "-"
    /\ AllIn(s, 10, 13, HexDigits) /\ s[14] = "-"
    /\ s[15] \in {"1", "2", "3", "4", "5"} /\ AllIn(s, 16, 18, HexDigits) /\ s[19] = "-"
    /\ s[20] \in {"8", "9", "a", "b", "A", "B"} /\ AllIn(s, 21, 23, HexDigits)
    /\ s[24] = "-" /\ AllIn(s, 25, 36, HexDigits)

CandidateOf(explicit, cfg) ==
    IF explicit # Undefined /\ ~Blank(explicit) THEN trim(explicit) ELSE cfg.defaultSpaceId

FailsWith(code) == ~out.ok /\ out.error.kind = "CapacitiesError" /\ out.error.code = code

\* C13: resolveSpaceId takes the explicit value, trimmed, when that is
\* non-empty, otherwise the configured default; with no candidate it fails
\* with config_error; with a candidate that is no valid UUID it fails with
\* validation_error whichever source supplied it (an invalid explicit value
\* never falls back to a valid default); otherwise it returns the candidate,
\* so every returned value is a syntactically valid UUID.
C13_ResolveSpaceId ==
    Applied("resolveSpaceId") =>
        /\ IF CandidateOf(arg.explicitSpaceId, arg.config) = Undefined
           THEN FailsWith("config_error")
           ELSE IF ~IsUuidShape(CandidateOf(arg.explicitSpaceId, arg.config))
           THEN FailsWith("validation_error")
           ELSE out = Return(CandidateOf(arg.explicitSpaceId, arg.config))
        /\ out.ok => IsUuidShape(out.value)

\* an explicit value with version nibble 0, a valid default: refused
C13_Witness ==
    /\ Applied("resolveSpaceId")
    /\ arg.explicitSpaceId = NonUuid
    /\ arg.config.defaultSpaceId = DefaultUuid
    /\ FailsWith("validation_error")

\* ------------------------------------------------------------------------
\* C14
\* ------------------------------------------------------------------------
Missing(v) == v = Undefined \/ Blank(v)

\* C14: loadCapacitiesConfig fails with config_error when the credential is
\* missing or empty after trimming; fails with validation_error when the
\* default space id is present (non-empty after trimming) and no valid UUID;
\* otherwise returns the trimmed credential, the fixed base URL and the
\* default space id (absent when not provided); a loaded configuration never
\* holds a non-UUID default space.
C14_LoadCapacitiesConfig ==
    Applied("loadCapacitiesConfig") =>
        /\ IF Missing(arg.CAPACITIES_API_TOKEN) THEN FailsWith("config_error")
           ELSE IF /\ ~Missing(arg.CAPACITIES_SPACE_ID)
                   /\ ~IsUuidShape(trim(arg.CAPACITIES_SPACE_ID))
           THEN FailsWith("validation_error")
           ELSE out = Return(
                    [baseUrl |-> "https://api.capacities.io",
                     apiToken |-> trim(arg.CAPACITIES_API_TOKEN),
                     defaultSpaceId |-> IF Missing(arg.CAPACITIES_SPACE_ID) THEN Undefined
                                        ELSE trim(arg.CAPACITIES_SPACE_ID)])
        /\ out.ok => \/ out.value.defaultSpaceId = Undefined
                     \/ IsUuidShape(out.value.defaultSpaceId)

\* a credential and a default space with version nibble 0: refused at load time
C14_Witness ==
    /\ Applied("loadCapacitiesConfig")
    /\ arg.CAPACITIES_API_TOKEN = <<" ">> \o Token \o <<" ">>
    /\ arg.CAPACITIES_SPACE_ID = NonUuid
    /\ FailsWith("validation_error")

\* ------------------------------------------------------------------------
\* C15
\* ------------------------------------------------------------------------
EndsWith(text, suffix) ==
    /\ Len(text) >= Len(suffix)
    /\ SubSeq(text, Len(text) - Len(suffix) + 1, Len(text)) = suffix

Mentions(text, part) ==
    \E i \in 1..(Len(text) - Len(part) + 1) : SubSeq(text, i, i + Len(part) - 1) = part

GuidanceFor(status) ==
    IF status = 401
    THEN <<"Verify CAPACITIES_API_TOKEN is valid for your Capacities account.">>
    ELSE IF status = 404
    THEN <<"Verify endpoint and identifiers (for example space ID) and retry.">>
    ELSE IF status >= 500
    THEN <<"Retry with exponential backoff. If repeated, treat as temporary upstream outage.">>
    ELSE <<"Check request parameters and payload shape against Capacities API docs, then retry.">>

Present(header) == header # Null /\ header # <<>>

BackOffGuidance ==
    <<"Back off and retry with lower request frequency. Respect RateLimit headers when present.">>

SucceededWith(outcome) ==
    outcome.kind = "response" /\ outcome.status \in 200..299

\* C17: for every operation of the remote client, a success status with an
\* empty or whitespace-only body raises api_error, and a success status with
\* a non-empty body that is no JSON raises api_error; in neither case does
\* the operation return a value.
C17_EmptyOrUnparseableBody ==
    (/\ Applied("requestJson")
     /\ SucceededWith(arg.outcome)
     /\ Blank(arg.outcome.body.raw) \/ ~arg.outcome.body.isJson)
        => /\ FailsWith("api_error")
           /\ out.error.status = arg.outcome.status

\* 204 with a blank body on /save-weblink: api_error
C17_Witness ==
    /\ Applied("requestJson")
    /\ arg.path = "/save-weblink"
    /\ arg.outcome.status = 204
    /\ arg.outcome.body.raw = <<" ", " ">>
    /\ FailsWith("api_error")

\* ------------------------------------------------------------------------
\* C18
\* ------------------------------------------------------------------------
BothSpaceInfoCalls == <<"/spaces", "/space-info">>

\* C18: get_space_info issues the workspace-list call and the
\* structure-metadata call before it awaits either response, and returns the
\* success shape only if both succeed; if either fails, whichever response
\* comes first, the result is the error shape and holds no data of the call
\* that succeeded.
C18_SpaceInfoAllOrNothing ==
    /\ (call.tool = "get_space_info" /\ pc = "await_all") =>
            /\ httpCalls = BothSpaceInfoCalls
            /\ (frame.spaces = NoJson /\ frame.spaceInfo = NoJson) =>
                    pending = {"/spaces", "/space-info"}
    /\ (Done("get_space_info") /\ SuccessShape(result)) =>
            /\ httpCalls = BothSpaceInfoCalls
            /\ pending = {}
            /\ raised = NoError
            /\ frame.spaces.has /\ frame.spaceInfo.has
            /\ result.data.structures = frame.spaceInfo.list
            /\ result.data.spacesCount = Len(frame.spaces.list)
    /\ (Done("get_space_info") /\ raised # NoError) =>
            /\ ErrorShape(result)
            /\ result.keys = {"tool", "ok", "error"}
            /\ result.data = NoDetails

\* the structure metadata arrived, then the workspace list failed: an error
\* without the structures
C18_Witness ==
    /\ Done("get_space_info")
    /\ frame.spaceInfo.has
    /\ frame.spaces = NoJson
    /\ httpCalls = BothSpaceInfoCalls
    /\ ErrorShape(result)
    /\ result.data = NoDetails

\* ------------------------------------------------------------------------
\* C19
\* ------------------------------------------------------------------------
FiltersApplied ==
    Applied("normalizeSearchEntitiesFilters") \/ Applied("normalizeListTasksFilters")

AllDatesValid(input) ==
    \A v \in {input.date, input.dateFrom, input.dateTo} : Supplied(v) => AcceptedDate(v)

CanonicalOrAbsent(v, now) ==
    IF Supplied(v) THEN CanonicalText(DayNamed(v, now)) ELSE Undefined

\* a > b in the order of strings, character by character
StringAfter(a, b) ==
    \E i \in 1..Len(a) :
        /\ i <= Len(b) => DigitValue(a[i]) > DigitValue(b[i])
        /\ \A j \in 1..(i - 1) : j <= Len(b) /\ a[j] = b[j]

DigitsOf(text) == SelectSeq(text, LAMBDA c : c # "-")

\* C19: in search_entities and list_tasks, once each supplied date is
\* normalised: a single date together with dateFrom or dateTo fails with
\* validation_error; exactly one of dateFrom and dateTo fails with
\* validation_error; both, with dateFrom after dateTo in string order of the
\* canonical form, fails with validation_error; every other combination of
\* valid dates (none, a single date, a range with dateFrom <= dateTo) passes.
C19_DateCombinations ==
    (FiltersApplied /\ AllDatesValid(arg.input)) =>
        IF \/ Supplied(arg.input.date)
                /\ (Supplied(arg.input.dateFrom) \/ Supplied(arg.input.dateTo))
           \/ Supplied(arg.input.dateFrom) # Supplied(arg.input.dateTo)
           \/ /\ Supplied(arg.input.dateFrom) /\ Supplied(arg.input.dateTo)
              /\ StringAfter(DigitsOf(CanonicalOrAbsent(arg.input.dateFrom, arg.now)),
                             DigitsOf(CanonicalOrAbsent(arg.input.dateTo, arg.now)))
        THEN FailsWith("validation_error")
        ELSE /\ out.ok
             /\ out.value.date = CanonicalOrAbsent(arg.input.date, arg.now)
             /\ out.value.dateFrom = CanonicalOrAbsent(arg.input.dateFrom, arg.now)
             /\ out.value.dateTo = CanonicalOrAbsent(arg.input.dateTo, arg.now)

\* from 2024-03-01 to "yesterday" on 2024-03-01, that is to 2024-02-29: inverted
C19_Witness ==
    /\ Applied("normalizeSearchEntitiesFilters")
    /\ arg.input.date = Undefined
    /\ arg.input.dateFrom = DateText(2024, 3, 1)
    /\ arg.input.dateTo = YesterdayMixed
    /\ arg.now = Day(2024, 3, 1)
    /\ FailsWith("validation_error")

\* ------------------------------------------------------------------------
\* C20
\* ------------------------------------------------------------------------
SameLetter(a, b) ==
    \/ a = b
    \/ a \in DOMAIN UpperToLower /\ UpperToLower[a] = b
    \/ b \in DOMAIN UpperToLower /\ UpperToLower[b] = a

SameIgnoringCase(a, b) ==
    /\ a # Undefined /\ b # Undefined
    /\ Len(a) = Len(b)
    /\ \A i \in 1..Len(a) : SameLetter(a[i], b[i])

NamedBy(structure, type) ==
    \/ SameIgnoringCase(structure.id, type)
    \/ SameIgnoringCase(structure.title, type)
    \/ SameIgnoringCase(structure.pluralName, type)

AllowedFor(type, structures) ==
    {structures[i].id : i \in {j \in DOMAIN structures : NamedBy(structures[j], type)}}

KeptFor(type, structures, results) ==
    SelectSeq(results,
        LAMBDA r : IF AllowedFor(type, structures) # {}
                   THEN r.structureId \in AllowedFor(type, structures)
                   ELSE SameIgnoringCase(r.structureId, type))

FilterAsSpecified ==
    /\ out.value.allowedStructureIds = AllowedFor(arg.typeFilter, arg.structures)
    /\ out.value.filteredResults = KeptFor(arg.typeFilter, arg.structures, arg.results)

\* C20 as stated: the allowed set holds the ids of the structures whose id,
\* title or pluralName equals the type ignoring case; a result is kept exactly
\* when its structureId is in a non-empty set, or, the set being empty, when
\* its structureId equals the type ignoring case; a type that resolves to no
\* structure never keeps every result.
C20_UnresolvedTypeNeverKeepsAll ==
    Applied("filterByType") =>
        /\ FilterAsSpecified
        /\ (out.value.allowedStructureIds = {} /\ arg.results # <<>>) =>
                out.value.filteredResults # arg.results

\* C20, amended: the allowed set holds the ids of the structures whose id,
\* title or pluralName equals the type ignoring case; a result is kept exactly
\* when its structureId is in a non-empty set, or, the set being empty, when
\* its structureId equals the type ignoring case; a type that resolves to no
\* structure keeps every result exactly when every result's structureId
\* equals the type ignoring case.
C20_TypeFilter ==
    Applied("filterByType") =>
        /\ FilterAsSpecified
        /\ out.value.allowedStructureIds = {} =>
                (out.value.filteredResults = arg.results
                    <=> \A i \in DOMAIN arg.results :
                            SameIgnoringCase(arg.results[i].structureId, arg.typeFilter))

\* type NOTE, no structure of that name, one result of structure "note": kept
C20_Witness ==
    /\ Applied("filterByType")
    /\ arg.typeFilter = <<"N", "O", "T", "E">>
    /\ arg.structures = <<Structure2>>
    /\ arg.results = <<Result3>>
    /\ out.value.allowedStructureIds = {}
    /\ out.value.filteredResults = <<Result3>>

\* ------------------------------------------------------------------------
\* C21
\* ------------------------------------------------------------------------
SearchSucceeded == Done("search_entities") /\ SuccessShape(result)

\* the type filter of the call in progress, Undefined when there is none
TypeOfCall == TrimmedOrAbsent(call.input.type)

TypedSearchSucceeded == SearchSucceeded /\ TypeOfCall # Undefined

NotesOfSearch == result.data.unsupportedNotes

\* a note that says no results matched the type filter, naming the type
IsTypeNote(note) ==
    /\ Len(note) = 3
    /\ note[1] = "No results matched type filter '"
    /\ note[2] = TypeOfCall

HasTypeNote == \E i \in DOMAIN NotesOfSearch : IsTypeNote(NotesOfSearch[i])

NoStructureMatched == AllowedFor(TypeOfCall, frame.spaceInfo.list) = {}

NoResultPassed == KeptFor(TypeOfCall, frame.spaceInfo.list, frame.lookup.list) = <<>>

\* C21 as stated: in search_entities with a type filter, a note is recorded
\* in the result's notes whenever no structure matched the type string (the
\* allowed-structure-id set is empty).
C21_NoteWheneverNoStructureMatched ==
    (TypedSearchSucceeded /\ NoStructureMatched) => HasTypeNote

\* C21, amended: in search_entities with a type filter, the type note is
\* recorded exactly when no lookup result passed the type filter, whether or
\* not a structure matched the type string; the note says that no results
\* matched the type and names the type; without a type filter there is no
\* such note.
C21_NoteWhenNoResultPassed ==
    /\ TypedSearchSucceeded => (HasTypeNote <=> NoResultPassed)
    /\ (SearchSucceeded /\ TypeOfCall = Undefined) => ~HasTypeNote

\* no structure matched the type, the fallback kept a result, and there is
\* no note
C21_Witness ==
    /\ TypedSearchSucceeded
    /\ NoStructureMatched
    /\ ~NoResultPassed
    /\ ~HasTypeNote

\* ------------------------------------------------------------------------
\* C22
\* ------------------------------------------------------------------------
\* the limit in force: 20 when the call gives none
LimitOfCall == IF call.input.limit = UndefinedLimit THEN 20 ELSE call.input.limit

\* the lookup results after the type filter, all of them without one
FilteredOfCall ==
    IF TypeOfCall = Undefined THEN frame.lookup.list
    ELSE KeptFor(TypeOfCall, frame.spaceInfo.list, frame.lookup.list)

Smaller(a, b) == IF a <= b THEN a ELSE b

\* C22: in every successful search_entities result, results is the first
\* `limit` elements of the type-filtered lookup results in their original
\* order (limit is 20 when omitted, otherwise the given integer in 1..100),
\* totalResultsBeforeLimit is the size of the filtered list before
\* truncation, and returnedResults is the length of results and equals
\* min(limit, totalResultsBeforeLimit).
C22_ResultsAreFirstLimitOfFiltered ==
    SearchSucceeded =>
        /\ LimitOfCall \in 1..100
        /\ result.data.query.limit = LimitOfCall
        /\ result.data.totalResultsBeforeLimit = Len(FilteredOfCall)
        /\ result.data.returnedResults = Len(result.data.results)
        /\ result.data.returnedResults =
                Smaller(LimitOfCall, result.data.totalResultsBeforeLimit)
        /\ \A i \in 1..result.data.returnedResults :
                result.data.results[i] = FilteredOfCall[i]

\* no limit given, 21 results after the filter: the first 20 are returned
C22_Witness ==
    /\ SearchSucceeded
    /\ call.input.limit = UndefinedLimit
    /\ result.data.totalResultsBeforeLimit = 21
    /\ result.data.returnedResults = 20
    /\ result.data.results[20] = frame.lookup.list[20]

\* ------------------------------------------------------------------------
\* C23
\* ------------------------------------------------------------------------
\* two search_entities calls that differ at most in their dates have both
\* succeeded on the same remote responses
TwoSearchesSucceeded ==
    /\ Applied("search_entities")
    /\ SuccessShape(out.first) /\ SuccessShape(out.second)

AnyDateSupplied(dates) == \E i \in 1..3 : Supplied(dates[i])

IsDateNote(note) ==
    note = <<"Date filters are accepted for compatibility but not applied because /lookup does not return entity date fields.">>

HasDateNote(r) ==
    \E i \in DOMAIN r.data.unsupportedNotes : IsDateNote(r.data.unsupportedNotes[i])

\* the query echoes the dates in canonical form and the date note is there
\* exactly when a date was supplied
DatesEchoedAndNoted(r, dates) ==
    /\ r.data.query.date = CanonicalOrAbsent(dates[1], arg.now)
    /\ r.data.query.dateFrom = CanonicalOrAbsent(dates[2], arg.now)
    /\ r.data.query.dateTo = CanonicalOrAbsent(dates[3], arg.now)
    /\ HasDateNote(r) <=> AnyDateSupplied(dates)

\* C23: two successful search_entities calls that differ only in their valid
\* date, dateFrom and dateTo inputs and receive the same remote responses
\* have the same results list, totalResultsBeforeLimit and returnedResults;
\* the normalized dates appear in the echoed query, and the note that date
\* filters are not applied is present whenever at least one date input was
\* supplied and absent otherwise.
C23_DatesNeverChangeTheResults ==
    TwoSearchesSucceeded =>
        /\ out.first.data.results = out.second.data.results
        /\ out.first.data.totalResultsBeforeLimit = out.second.data.totalResultsBeforeLimit
        /\ out.first.data.returnedResults = out.second.data.returnedResults
        /\ DatesEchoedAndNoted(out.first, arg.first)
        /\ DatesEchoedAndNoted(out.second, arg.second)

\* one call without dates, one with a range: the same non-empty results, a
\* date note in the second only
C23_Witness ==
    /\ TwoSearchesSucceeded
    /\ ~AnyDateSupplied(arg.first)
    /\ Supplied(arg.second[2]) /\ Supplied(arg.second[3])
    /\ out.first.data.results # <<>>
    /\ out.second.data.results = out.first.data.results
    /\ ~HasDateNote(out.first)
    /\ HasDateNote(out.second)

\* ------------------------------------------------------------------------
\* C24
\* ------------------------------------------------------------------------
\* the operations so far whose client-side checks passed, oldest first
PassedOperations == SelectSeq(history, LAMBDA o : o.passed)

\* C24: every remote client operation whose client-side checks pass issues
\* exactly one HTTP call, whatever the outcome of that call: the HTTP calls
\* issued so far are, in order, one per such operation, so that no call is
\* repeated after a failure and none is left out because an earlier
\* operation already had the answer; only the latest operation can have its
\* call in flight.
C24_OneHttpCallPerOperation ==
    /\ Len(httpCalls) = Len(PassedOperations)
    /\ \A i \in DOMAIN httpCalls : httpCalls[i] = PassedOperations[i].path
    /\ \A i \in DOMAIN history :
            history[i].settled = "in flight" => (i = Len(history) /\ pending = {history[i].path})
    /\ pending # {} => (history # <<>> /\ history[Len(history)].settled = "in flight")

\* three lookups: the first call failed, the second was answered, and the
\* third is issued all the same
C24_Witness ==
    /\ Len(history) = 3
    /\ \A i \in 1..3 : history[i].operation = "lookup" /\ history[i].passed
    /\ history[1].settled = "rejected"
    /\ history[2].settled = "resolved"
    /\ history[3].settled = "in flight"
    /\ httpCalls = <<"/lookup", "/lookup", "/lookup">>
    /\ pending = {"/lookup"}

\* ------------------------------------------------------------------------
\* C25
\* ------------------------------------------------------------------------
SearchInProgress == call.tool = "search_entities"

StructureCallIssued == \E i \in DOMAIN httpCalls : httpCalls[i] = "/space-info"

\* the lookup has come back with a success status and a JSON object
LookupReturned == frame.lookup.kind = "object"

\* C25: within one search_entities invocation the remote calls are strictly
\* sequential: the keyword lookup is issued first; the structure-metadata
\* call is issued only if a type filter is present and only after the lookup
\* has returned successfully; the two are never in flight at the same time;
\* without a type filter, or if the lookup fails, the structure-metadata call
\* is never issued.
C25_LookupThenStructureMetadata ==
    SearchInProgress =>
        /\ httpCalls \in {<<>>, <<"/lookup">>, <<"/lookup", "/space-info">>}
        /\ pending \in {{}, {"/lookup"}, {"/space-info"}}
        /\ pc = "await_lookup" => (httpCalls = <<"/lookup">> /\ pending = {"/lookup"})
        /\ StructureCallIssued =>
                /\ TypeOfCall # Undefined
                /\ LookupReturned
                /\ "/lookup" \notin pending
        /\ (TypeOfCall = Undefined \/ ~LookupReturned) => "/space-info" \notin pending

\* the lookup has returned its results and the structure-metadata call alone
\* is in flight
C25_Witness ==
    /\ SearchInProgress
    /\ pc = "await_space_info"
    /\ TypeOfCall # Undefined
    /\ LookupReturned /\ frame.lookup.list # <<>>
    /\ httpCalls = <<"/lookup", "/space-info">>
    /\ pending = {"/space-info"}

\* ------------------------------------------------------------------------
\* C26
\* ------------------------------------------------------------------------
EndedWith(code) == pc = "done" /\ ErrorShape(result) /\ result.error.code = code

\* what the handler has of the response to a call, NoJson if it has none
ResponseTo(path) ==
    CASE path = "/spaces" -> frame.spaces
      [] path = "/space-info" -> frame.spaceInfo
      [] path = "/lookup" -> frame.lookup

\* the remote service answered every call of the tool call with a success
\* status and a body that parses as JSON
EveryCallAnsweredWithJson ==
    /\ httpCalls # <<>>
    /\ pending = {}
    /\ \A i \in DOMAIN httpCalls : ResponseTo(httpCalls[i]) # NoJson

\* fetch itself threw: an Error, or some other value
TransportThrew == raised \in {PlainError(<<"fetch failed">>), ThrownValue}

\* C26: a tool call ends with code network_error only when a remote call
\* failed before a response was received or the transport itself threw;
\* whenever the remote service answered with a success status and a body
\* that parses as JSON, the tool call does not end with network_error,
\* whatever the JSON holds (for example a body without the expected results,
\* spaces or structures field).
C26_NetworkErrorOnlyFromTransport ==
    /\ EndedWith("network_error") => TransportThrew
    /\ (pc = "done" /\ EveryCallAnsweredWithJson) => ~EndedWith("network_error")

====
